---- MODULE Spec2Model ----
(***************************************************************************)
(* Conversation pipeline and campaign stage engine of CallAi.              *)
(*                                                                         *)
(* Strings are sequences of one-character strings, so that Python's        *)
(* `a.lower() in b.lower()` is a real substring test.  None is Python's    *)
(* None.  The repository layer is the JSON-file repository of              *)
(* call_agent/repositories; the core imports its repositories under the    *)
(* package name crm.repositories, whose base and conversation modules are  *)
(* not among the sources.                                                  *)
(***************************************************************************)
EXTENDS Integers, Sequences, FiniteSets, TLC

VARIABLES
    eval,       \* one evaluation of the stage-transition evaluators
    walk,       \* a walk through campaign.stages with get_next_stage
    pipe,       \* one CallLangChainPipeline.run_step
    convFile,   \* data/conversations.json: the list of conversation dicts
    agent,      \* call_agents: user id -> CallAgent (Nil while not created)
    calls,      \* the Call objects created so far, by call id
    thr,        \* the request threads of the API server
    nreq,       \* requests accepted so far
    overlaps,   \* requests accepted while another one was being served
    reg,        \* the agent map, its lock and the threads inside get_call_agent
    rec,        \* one agent's recording thread and its cleanup
    script,     \* one placeholder substitution of get_campaign_script
    brain,      \* one utterance through the ConversationPipeline
    kw,         \* one keyword rule applied to one utterance
    compose,    \* one script composition of get_campaign_script
    repo,       \* one repository file and the calls made on it
    api,        \* one request to a /calls/process handler
    instr       \* one list of findings given to the instruction generator

sysvars == <<convFile, agent, calls, thr, nreq, overlaps>>

latervars == <<kw, compose, repo, api, instr>>

vars == <<eval, walk, pipe, reg, rec, script, brain, latervars,
         convFile, agent, calls, thr, nreq, overlaps>>

None == "None"

(***************************************************************************)
(* Bounds                                                                  *)
(***************************************************************************)
MaxStages == 3          \* longest campaign.stages list that is walked
MaxTurnsSeen == 2       \* longest transcript handed to the evaluator
MaxOverlaps == 1        \* requests accepted while another one is in flight
MaxRequests == 3        \* API requests served in one run
MaxLookups == 4         \* get_call_agent calls in one run
MaxContext == 2         \* items in the context of a substitution
MaxFrames == 6          \* frames the recording thread writes
MaxInputs == 2          \* utterances one pipeline processes
MaxKeywords == 4        \* keywords in one rule
MaxCreates == 3         \* create calls on one repository

(***************************************************************************)
(* Strings                                                                 *)
(***************************************************************************)
Capitals == [G |-> "g", N |-> "n", A |-> "a", B |-> "b"]

Lower(c) == IF c \in DOMAIN Capitals THEN Capitals[c] ELSE c

Upper(c) == IF \E C \in DOMAIN Capitals : Capitals[C] = c
            THEN CHOOSE C \in DOMAIN Capitals : Capitals[C] = c
            ELSE c

LowerStr(s) == [i \in 1..Len(s) |-> Lower(s[i])]

\* Python `needle in hay` for str
Contains(hay, needle) ==
    \E i \in 1..(Len(hay) - Len(needle) + 1) :
        SubSeq(hay, i, i + Len(needle) - 1) = needle

\* any(k.lower() in text.lower() for k in words)
AnyIn(words, text) ==
    \E j \in 1..Len(words) : Contains(LowerStr(text), LowerStr(words[j]))

Has(d, k) == k \in DOMAIN d

(***************************************************************************)
(* CampaignStage enum and CampaignManager.get_next_stage                   *)
(***************************************************************************)
CampaignStage == {"introduction", "needs_assessment", "solution_presentation",
                  "objection_handling", "closing", "follow_up"}

\* list.index(x): the first position holding x (1-based here), 0 for ValueError
IndexOf(stages, s) ==
    IF \E i \in 1..Len(stages) : stages[i] = s
    THEN CHOOSE i \in 1..Len(stages) :
             stages[i] = s /\ \A j \in 1..(i - 1) : stages[j] # s
    ELSE 0

get_next_stage_skip(stages, current_stage) ==
    LET current_index == IndexOf(stages, current_stage)
    IN  IF current_index = 0 THEN None
        ELSE IF current_index + 2 <= Len(stages) THEN stages[current_index + 2]
        ELSE None

get_next_stage(stages, current_stage) ==
    LET current_index == IndexOf(stages, current_stage)
    IN  IF current_index = 0 THEN None                    \* ValueError: pass
        ELSE IF current_index + 1 <= Len(stages) THEN stages[current_index + 1]
        ELSE None

(***************************************************************************)
(* Stage transition evaluators                                             *)
(***************************************************************************)
\* CampaignManager.should_transition_stage, after the two lookups succeeded;
\* sentiment_score is <<>> for None and <<x>> for the score x
should_transition_stage(stage_rules, transcript_len, user_input, sentiment_score) ==
    LET c1 == ~(Has(stage_rules, "min_turns")
                /\ transcript_len < stage_rules.min_turns)
        c2 == IF Has(stage_rules, "keywords") /\ c1
              THEN AnyIn(stage_rules.keywords, user_input)
              ELSE c1
        c3 == IF Has(stage_rules, "sentiment_threshold")
                 /\ sentiment_score # <<>> /\ c2
              THEN ~(sentiment_score[1] < stage_rules.sentiment_threshold)
              ELSE c2
    IN  IF Has(stage_rules, "transition_signals") /\ c3
           /\ AnyIn(stage_rules.transition_signals, user_input)
        THEN TRUE
        ELSE c3

\* CallAgent._should_transition_with_template_rules, template branch
should_transition_template(conditions, transcript_len, user_text) ==
    IF Has(conditions, "min_turns") /\ transcript_len < conditions.min_turns
    THEN FALSE
    ELSE IF Has(conditions, "keywords") /\ ~AnyIn(conditions.keywords, user_text)
    THEN FALSE
    ELSE TRUE

(***************************************************************************)
(* CallLangChainPipeline.run_step                                          *)
(***************************************************************************)
RunSteps == {"stt", "nlp", "loader", "orchestrator", "tool", "responder",
             "tts", "log"}

\* _safe(func, default=d): the default replaces a raise
Safe(raises, value, default) == IF raises THEN default ELSE value

\* Optional values: Nil is None, Some(x) a value
Nil == <<>>
Some(x) == <<x>>

IdleEval == [pc |-> "idle"]
IdleWalk == [pc |-> "idle"]
IdlePipe == [pc |-> "idle"]
IdleReg == [pc |-> "idle"]
IdleRec == [pc |-> "idle"]
IdleScript == [pc |-> "idle"]
IdleBrain == [pc |-> "idle"]
IdleKw == [pc |-> "idle"]
IdleCompose == [pc |-> "idle"]
IdleRepo == [pc |-> "idle"]
IdleApi == [pc |-> "idle"]
IdleInstr == [pc |-> "idle"]

LaterIdle ==
    /\ kw = IdleKw
    /\ compose = IdleCompose
    /\ repo = IdleRepo
    /\ api = IdleApi
    /\ instr = IdleInstr

(***************************************************************************)
(* Stored data: two tenants, each owning one contact and one campaign      *)
(***************************************************************************)
Users == {"u1", "u2"}
Threads == {"t1", "t2"}

ContactOwner == [c1 |-> "u1", c2 |-> "u2"]
CampaignOwner == [k1 |-> "u1", k2 |-> "u2"]
UnknownId == "zz"
ContactIds == DOMAIN ContactOwner \cup {UnknownId}
CampaignIds == DOMAIN CampaignOwner \cup {UnknownId}

WordGo == <<"g", "o">>
WordNo == <<"n", "o">>

\* campaign.stages, campaign.script_template and data_collection_fields of
\* both stored campaigns (legacy campaigns: template_id is None)
StoredStages == <<"introduction", "needs_assessment", "closing">>
StoredScriptTemplate ==
    [introduction |-> [transition_rules |-> [keywords |-> <<WordGo>>]],
     needs_assessment |-> [transition_rules |->
                               [min_turns |-> 1, keywords |-> <<WordGo>>]]]
\* campaign.data_collection_fields: the campaign of u1 collects 'name', the
\* campaign of u2 collects 'first_name'
StoredFields(campaign_id) ==
    IF campaign_id = "k2" THEN <<"first_name">> ELSE <<"name">>

EmptyDict == [x \in {} |-> <<>>]

Put(d, k, v) == [x \in DOMAIN d \cup {k} |-> IF x = k THEN v ELSE d[x]]

\* campaign.script_template.get(stage, {}).get('transition_rules', {})
StageRules(stage) ==
    IF stage \in DOMAIN StoredScriptTemplate
    THEN StoredScriptTemplate[stage].transition_rules
    ELSE EmptyDict

\* what the callers say
TextBlank == <<" ">>
TextName(u) ==
    <<"G", "o", " ", "c", "a", "l", "l", " ", "m", "e", " ">>
        \o (IF u = "u1" THEN <<"a", "n", "n">> ELSE <<"b", "o", "b">>)
Texts(u) == {TextBlank, TextName(u)}

\* str.strip() leaves nothing
IsBlank(text) == \A i \in 1..Len(text) : text[i] = " "

(***************************************************************************)
(* CampaignManager.extract_data_from_input                                 *)
(***************************************************************************)
NonWordChars == {" ", "'"}

NamePatterns ==
    << <<"m", "y", " ", "n", "a", "m", "e", " ", "i", "s", " ">>,
       <<"i", "'", "m", " ">>,
       <<"i", " ", "a", "m", " ">>,
       <<"c", "a", "l", "l", " ", "m", "e", " ">> >>

\* positions where re.search(prefix + r"(\w+)", text) can match
MatchStarts(prefix, text) ==
    {i \in 1..Len(text) :
        /\ i + Len(prefix) <= Len(text)
        /\ SubSeq(text, i, i + Len(prefix) - 1) = prefix
        /\ text[i + Len(prefix)] \notin NonWordChars}

\* match.group(1) of the leftmost match: the longest run of word characters
Group1(prefix, text) ==
    LET i == CHOOSE a \in MatchStarts(prefix, text) :
                 \A b \in MatchStarts(prefix, text) : a <= b
        first == i + Len(prefix)
        last == CHOOSE e \in first..Len(text) :
                    /\ \A j \in first..e : text[j] \notin NonWordChars
                    /\ e = Len(text) \/ text[e + 1] \in NonWordChars
    IN  SubSeq(text, first, last)

\* str.title() of one word
Title(w) == [i \in 1..Len(w) |-> IF i = 1 THEN Upper(w[i]) ELSE Lower(w[i])]

\* the (field, value) pairs extracted, in field order
RECURSIVE extract_data_from_input(_, _)
extract_data_from_input(fields, user_input) ==
    IF fields = <<>> THEN <<>>
    ELSE LET field == Head(fields)
             text == LowerStr(user_input)
             hits == {p \in 1..Len(NamePatterns) :
                         MatchStarts(NamePatterns[p], text) # {}}
             found ==
                 IF field \in {"name", "first_name"} /\ hits # {}
                 THEN LET p == CHOOSE a \in hits : \A b \in hits : a <= b
                      IN  << <<field, Title(Group1(NamePatterns[p], text))>> >>
                 ELSE <<>>
         IN  found \o extract_data_from_input(Tail(fields), user_input)

(***************************************************************************)
(* JSON-file repository (BaseRepository, ConversationRepository)           *)
(***************************************************************************)
\* ConversationRepository.from_dict: id is data.get('id'), the stage string
\* becomes the enum, transcript and collected_data default to empty
from_dict(data) ==
    [id |-> IF Has(data, "id") THEN data.id ELSE None,
     contact_id |-> data.contact_id,
     campaign_id |-> data.campaign_id,
     call_id |-> data.call_id,
     stage |-> IF Has(data, "stage") THEN data.stage ELSE "introduction",
     transcript |-> IF Has(data, "transcript") THEN data.transcript ELSE <<>>,
     collected_data |-> IF Has(data, "collected_data") THEN data.collected_data
                        ELSE EmptyDict,
     \* not passed to Conversation(...): the dataclass default, an empty list
     stage_transitions |-> <<>>]

\* position of the first item whose 'id' equals entity_id, 0 when there is none
FirstWithId(data, entity_id) ==
    IF \E i \in 1..Len(data) : data[i].id = entity_id
    THEN CHOOSE i \in 1..Len(data) :
             data[i].id = entity_id /\ \A j \in 1..(i - 1) : data[j].id # entity_id
    ELSE 0

\* BaseRepository.find_by_id on loaded data
find_by_id(data, entity_id) ==
    IF FirstWithId(data, entity_id) = 0 THEN Nil
    ELSE Some(from_dict(data[FirstWithId(data, entity_id)]))

\* BaseRepository.update on loaded data: the list to save, or Nil when no item
\* has the entity's id
update(data, entity) ==
    IF FirstWithId(data, entity.id) = 0 THEN Nil
    ELSE Some([data EXCEPT ![FirstWithId(data, entity.id)] = entity])

\* BaseRepository.create on loaded data
create(data, entity) == Append(data, entity)

\* Conversation.add_transcript_entry / update_collected_data and the stage
\* assignment of update_stage, on a loaded conversation
NoMod == [kind |-> "none", a |-> "", b |-> <<>>]
TranscriptMod(speaker, text) == [kind |-> "transcript", a |-> speaker, b |-> text]
DataMod(kv) == [kind |-> "data", a |-> kv[1], b |-> kv[2]]
StageMod(stage) == [kind |-> "stage", a |-> stage, b |-> <<>>]

Apply(mod, conversation) ==
    CASE mod.kind = "transcript" ->
            [conversation EXCEPT !.transcript =
                Append(@, [speaker |-> mod.a, text |-> mod.b])]
      [] mod.kind = "data" ->
            [conversation EXCEPT !.collected_data = Put(@, mod.a, mod.b)]
      [] mod.kind = "stage" ->
            [conversation EXCEPT !.stage = mod.a]
      [] OTHER -> conversation

(***************************************************************************)
(* CallAgent and the API request threads                                   *)
(***************************************************************************)
\* CallAgent.__init__: self.user = user, no call state
NewAgent(user) ==
    [user |-> user, current_call |-> Nil, current_conversation |-> Nil,
     current_contact |-> Nil, current_campaign |-> Nil]

\* api.get_call_agent: look the agent up, create it when absent; user is what
\* UserManager.get_user_by_id returned for the new agent
get_call_agent(agents, user_id, user) ==
    IF agents[user_id] = Nil
    THEN [agents EXCEPT ![user_id] = Some(NewAgent(user))]
    ELSE agents

\* UserRepository.find_by_id of get_call_agent: the user, or None when
\* _load_data reads the users file while another request is rewriting it
\* (open(..., 'w') truncates it, the JSONDecodeError gives [])
UserLookups(user_id) == {Some(user_id), Nil}

ReplyNotInCall == "I'm sorry, but I'm not currently in a call. Please start a call first."
ReplyReprompt == "I didn't catch that. Could you please repeat?"
ReplyFallback == "I'm sorry, I'm having trouble processing that. Could you please repeat?"
ReplyGenerated == "generated"

\* the text the generation collaborator returns
GeneratedText == <<"o", "k">>

IdleThread ==
    [pc |-> "idle", sub |-> "", op |-> "none", user |-> "none", text |-> <<>>,
     contact |-> "", campaign |-> "", call |-> 0, obj |-> Nil, snap |-> <<>>,
     mod |-> NoMod, keys |-> <<>>, next_stage |-> "", ret |-> "",
     failed |-> FALSE, before |-> Nil]

SysIdle ==
    /\ convFile = <<>>
    /\ agent = [u \in Users |-> Nil]
    /\ calls = <<>>
    /\ thr = [t \in Threads |-> IdleThread]
    /\ nreq = 0
    /\ overlaps = 0

PureIdle ==
    /\ eval = IdleEval
    /\ walk = IdleWalk
    /\ pipe = IdlePipe
    /\ reg = IdleReg
    /\ rec = IdleRec
    /\ script = IdleScript
    /\ brain = IdleBrain
    /\ LaterIdle

Init == SysIdle /\ PureIdle

purevars == <<eval, walk, pipe, reg, rec, script, brain, latervars>>

\* the components other than the three evaluators' own
morevars == <<reg, rec, script, brain, latervars>>

MoreIdle ==
    /\ reg = IdleReg
    /\ rec = IdleRec
    /\ script = IdleScript
    /\ brain = IdleBrain
    /\ LaterIdle

Me(t) == agent[thr[t].user][1]

\* the request is over: the handler returns ret to the API caller
Return(r, ret) ==
    [IdleThread EXCEPT !.pc = "respond", !.op = r.op, !.user = r.user,
                       !.call = r.call, !.before = r.before,
                       !.failed = r.failed, !.ret = ret]

\* an exception reaches the handler's except clause
Except(r) ==
    IF r.op = "process" THEN Return(r, ReplyFallback) ELSE Return(r, "False")

\* the step a thread goes to when the repository call of its step has returned
Done(r) ==
    CASE r.pc = "create" -> [r EXCEPT !.pc = "assign", !.sub = ""]
      [] r.pc = "end_persist" -> [r EXCEPT !.pc = "end_clear", !.sub = ""]
      [] r.pc = "add_user" -> [r EXCEPT !.pc = "persist1", !.sub = "load"]
      [] r.pc = "persist1" -> [r EXCEPT !.pc = "extract", !.sub = ""]
      [] r.pc = "collect" ->
            IF Len(r.keys) > 1
            THEN [r EXCEPT !.keys = Tail(@), !.mod = DataMod(r.keys[2]),
                           !.sub = "find"]
            ELSE [r EXCEPT !.pc = "persist2", !.sub = "load", !.keys = <<>>]
      [] r.pc = "persist2" -> [r EXCEPT !.pc = "evaluate", !.sub = ""]
      [] r.pc = "set_stage" -> [r EXCEPT !.pc = "assign_stage", !.sub = ""]
      [] r.pc = "add_agent" -> Return(r, ReplyGenerated)
      [] OTHER -> r

\* steps that call a ConversationRepository method (find_by_id, modify, update)
MethodSteps == {"add_user", "collect", "set_stage", "add_agent"}
\* steps that call update(self.current_conversation)
UpdateSteps == {"persist1", "persist2", "end_persist"}

\* ---- the three API handlers up to get_call_agent ----
Accepted(t, r, budget, user) ==
    /\ thr[t].pc = "idle"
    /\ nreq < budget
    /\ nreq' = nreq + 1
    /\ LET busy == \E o \in Threads \ {t} : thr[o].pc \notin {"idle", "respond"}
       IN  /\ busy => overlaps < MaxOverlaps
           /\ overlaps' = IF busy THEN overlaps + 1 ELSE overlaps
    /\ agent' = get_call_agent(agent, r.user, user)
    /\ thr' = [thr EXCEPT ![t] = r]
    /\ UNCHANGED <<convFile, calls, purevars>>

\* a request served while nothing rewrites the users file: the lookup of
\* get_call_agent finds the user require_auth found
Accept(t, r, budget) == Accepted(t, r, budget, Some(r.user))

RequestStart(t) ==
    \E u \in Users, contact \in ContactIds, campaign \in CampaignIds :
        Accept(t, [IdleThread EXCEPT !.pc = "enter", !.op = "start", !.user = u,
                      !.contact = contact, !.campaign = campaign],
               MaxRequests)

RequestEnd(t) ==
    \E u \in Users :
        Accept(t, [IdleThread EXCEPT !.pc = "enter", !.op = "end", !.user = u],
               MaxRequests)

RequestProcess(t) ==
    \E u \in Users : \E text \in Texts(u) :
        Accept(t, [IdleThread EXCEPT !.pc = "enter", !.op = "process",
                      !.user = u, !.text = text],
               MaxRequests)

\* ---- CallAgent.start_call ----
StartCallEnter(t) ==
    /\ thr[t].pc = "enter" /\ thr[t].op = "start"
    /\ LET r == thr[t]
           self_user == Me(t).user
           valid == /\ r.contact \in DOMAIN ContactOwner
                    /\ self_user # Nil => ContactOwner[r.contact] = self_user[1]
                    /\ r.campaign \in DOMAIN CampaignOwner
                    /\ self_user # Nil => CampaignOwner[r.campaign] = self_user[1]
           call_id == Len(calls) + 1
       IN  IF valid
           THEN /\ calls' = Append(calls,
                        [user_id |-> IF self_user # Nil THEN self_user[1]
                                     ELSE ContactOwner[r.contact],
                         status |-> "in_progress"])
                /\ thr' = [thr EXCEPT ![t] =
                       [r EXCEPT !.pc = "create", !.sub = "load", !.call = call_id,
                           !.obj = Some(from_dict(
                               [contact_id |-> r.contact, campaign_id |-> r.campaign,
                                call_id |-> call_id, stage |-> "introduction"]))]]
           ELSE /\ thr' = [thr EXCEPT ![t] = Return(r, "False")]
                /\ UNCHANGED calls
    /\ UNCHANGED <<convFile, agent, nreq, overlaps, purevars>>

\* BaseRepository.create: _load_data and append
CreateLoad(t) ==
    /\ thr[t].pc = "create" /\ thr[t].sub = "load"
    /\ thr' = [thr EXCEPT ![t].snap = create(convFile, thr[t].obj[1]),
                          ![t].sub = "save"]
    /\ UNCHANGED <<convFile, agent, calls, nreq, overlaps, purevars>>

\* self.current_call = call ... self.current_campaign = campaign
StartAssign(t) ==
    /\ thr[t].pc = "assign"
    /\ agent' = [agent EXCEPT ![thr[t].user] =
           Some([user |-> Me(t).user,
                 current_call |-> Some(thr[t].call),
                 current_conversation |-> thr[t].obj,
                 current_contact |-> Some(thr[t].contact),
                 current_campaign |-> Some(thr[t].campaign)])]
    /\ thr' = [thr EXCEPT ![t].pc = "originate"]
    /\ UNCHANGED <<convFile, calls, nreq, overlaps, purevars>>

\* the caller id (the request's from_number, or the user's own number: an
\* AttributeError when the request gives none and self.user is None), then
\* originate_call returns a channel or None
StartOriginate(t) ==
    /\ thr[t].pc = "originate"
    /\ \E channel, from_number \in BOOLEAN :
           thr' = [thr EXCEPT ![t] =
                      IF ~from_number /\ Me(t).user = Nil THEN Except(thr[t])
                      ELSE Return(thr[t], IF channel THEN "True" ELSE "False")]
    /\ UNCHANGED <<convFile, agent, calls, nreq, overlaps, purevars>>

\* ---- CallAgent.end_call ----
EndCallEnter(t) ==
    /\ thr[t].pc = "enter" /\ thr[t].op = "end"
    /\ IF Me(t).current_call = Nil
       THEN /\ thr' = [thr EXCEPT ![t] = Return(thr[t], "False")]
            /\ UNCHANGED calls
       ELSE /\ calls' = [calls EXCEPT ![Me(t).current_call[1]].status = "completed"]
            /\ thr' = [thr EXCEPT ![t] =
                   IF Me(t).current_conversation # Nil
                   THEN [thr[t] EXCEPT !.pc = "end_persist", !.sub = "load"]
                   ELSE [thr[t] EXCEPT !.pc = "end_clear"]]
    /\ UNCHANGED <<convFile, agent, nreq, overlaps, purevars>>

\* contact status update, then the call state is cleared
EndCallClear(t) ==
    /\ thr[t].pc = "end_clear"
    /\ agent' = [agent EXCEPT ![thr[t].user] = Some(NewAgent(Me(t).user))]
    /\ thr' = [thr EXCEPT ![t] = Return(thr[t], "True")]
    /\ UNCHANGED <<convFile, calls, nreq, overlaps, purevars>>

\* ---- repository calls, shared by the handlers ----
\* ConversationRepository method: find_by_id(self.current_conversation.id),
\* then the change on the loaded copy
MethodFind(t) ==
    /\ thr[t].pc \in MethodSteps /\ thr[t].sub = "find"
    /\ thr' = [thr EXCEPT ![t] =
           IF Me(t).current_conversation = Nil
           THEN Except(thr[t])
           ELSE LET found == find_by_id(convFile, Me(t).current_conversation[1].id)
                IN  IF found = Nil
                    THEN Done(thr[t])
                    ELSE [thr[t] EXCEPT !.obj = Some(Apply(thr[t].mod, found[1])),
                                        !.sub = "load"]]
    /\ UNCHANGED <<convFile, agent, calls, nreq, overlaps, purevars>>

\* BaseRepository.update(conversation): _load_data and replace the item
MethodLoad(t) ==
    /\ thr[t].pc \in MethodSteps /\ thr[t].sub = "load"
    /\ LET saved == update(convFile, thr[t].obj[1])
       IN  thr' = [thr EXCEPT ![t] =
               IF saved = Nil THEN Done(thr[t])
               ELSE [thr[t] EXCEPT !.snap = saved[1], !.sub = "save"]]
    /\ UNCHANGED <<convFile, agent, calls, nreq, overlaps, purevars>>

\* BaseRepository.update(self.current_conversation): the agent's own object
UpdateLoad(t) ==
    /\ thr[t].pc \in UpdateSteps /\ thr[t].sub = "load"
    /\ thr' = [thr EXCEPT ![t] =
           IF Me(t).current_conversation = Nil
           THEN Except(thr[t])
           ELSE LET saved == update(convFile, Me(t).current_conversation[1])
                IN  IF saved = Nil THEN Done(thr[t])
                    ELSE [thr[t] EXCEPT !.snap = saved[1], !.sub = "save"]]
    /\ UNCHANGED <<convFile, agent, calls, nreq, overlaps, purevars>>

\* BaseRepository._save_data: the file is rewritten, or the write raises
Save(t) ==
    /\ thr[t].sub = "save"
    /\ \E written \in BOOLEAN :
           IF written
           THEN /\ convFile' = thr[t].snap
                /\ thr' = [thr EXCEPT ![t] = Done([thr[t] EXCEPT !.snap = <<>>])]
           ELSE /\ convFile' = convFile
                /\ thr' = [thr EXCEPT ![t] = Except([thr[t] EXCEPT !.failed = TRUE])]
    /\ UNCHANGED <<agent, calls, nreq, overlaps, purevars>>

\* ---- CallAgent.process_user_input ----
\* the first record of the file that belongs to the call (Nil when none does)
Persisted(call_id) ==
    IF \E i \in 1..Len(convFile) : convFile[i].call_id = call_id
    THEN Some(convFile[CHOOSE i \in 1..Len(convFile) :
                  /\ convFile[i].call_id = call_id
                  /\ \A j \in 1..(i - 1) : convFile[j].call_id # call_id])
    ELSE Nil

\* process_user_input without the test of lines 238-239: a blank utterance is
\* processed like any other
ProcessEnter_noblank(t) ==
    /\ thr[t].pc = "enter" /\ thr[t].op = "process"
    /\ thr' = [thr EXCEPT ![t] =
           IF Me(t).current_conversation = Nil
           THEN Return(thr[t], ReplyNotInCall)
           ELSE [thr[t] EXCEPT !.pc = "add_user", !.sub = "find",
                    !.mod = TranscriptMod("user", thr[t].text),
                    !.call = Me(t).current_conversation[1].call_id,
                    !.before = Persisted(Me(t).current_conversation[1].call_id)]]
    /\ UNCHANGED <<convFile, agent, calls, nreq, overlaps, purevars>>

ProcessEnter(t) ==
    /\ thr[t].pc = "enter" /\ thr[t].op = "process"
    /\ thr' = [thr EXCEPT ![t] =
           IF Me(t).current_conversation = Nil
           THEN Return(thr[t], ReplyNotInCall)
           ELSE IF thr[t].text = <<>> \/ IsBlank(thr[t].text)
           THEN Return(thr[t], ReplyReprompt)
           ELSE [thr[t] EXCEPT !.pc = "add_user", !.sub = "find",
                    !.mod = TranscriptMod("user", thr[t].text),
                    !.call = Me(t).current_conversation[1].call_id,
                    !.before = Persisted(Me(t).current_conversation[1].call_id)]]
    /\ UNCHANGED <<convFile, agent, calls, nreq, overlaps, purevars>>

\* _extract_data_with_template_rules: the campaign has no template, so the
\* fields come from CampaignManager.extract_data_from_input
Extract(t) ==
    /\ thr[t].pc = "extract"
    /\ thr' = [thr EXCEPT ![t] =
           IF Me(t).current_campaign = Nil \/ Me(t).current_conversation = Nil
           THEN Except(thr[t])
           ELSE LET keys == extract_data_from_input(
                                StoredFields(Me(t).current_campaign[1]),
                                thr[t].text)
                IN  IF keys = <<>>
                    THEN [thr[t] EXCEPT !.pc = "persist2", !.sub = "load"]
                    ELSE [thr[t] EXCEPT !.pc = "collect", !.sub = "find",
                             !.keys = keys, !.mod = DataMod(keys[1])]]
    /\ UNCHANGED <<convFile, agent, calls, nreq, overlaps, purevars>>

\* _should_transition_with_template_rules (legacy branch: the stored
\* conversation is looked up by id) and get_next_stage on the agent's stage
Evaluate(t) ==
    /\ thr[t].pc = "evaluate"
    /\ thr' = [thr EXCEPT ![t] =
           IF Me(t).current_campaign = Nil \/ Me(t).current_conversation = Nil
           THEN Except(thr[t])
           ELSE LET mine == Me(t).current_conversation[1]
                    stored == find_by_id(convFile, mine.id)
                    should_transition ==
                        /\ stored # Nil
                        /\ should_transition_stage(StageRules(stored[1].stage),
                               Len(stored[1].transcript), thr[t].text, <<>>)
                    next_stage == get_next_stage(StoredStages, mine.stage)
                IN  IF should_transition /\ next_stage # None
                    THEN [thr[t] EXCEPT !.pc = "set_stage", !.sub = "find",
                             !.mod = StageMod(next_stage),
                             !.next_stage = next_stage]
                    ELSE [thr[t] EXCEPT !.pc = "generate"]]
    /\ UNCHANGED <<convFile, agent, calls, nreq, overlaps, purevars>>

\* self.current_conversation.stage = next_stage
AssignStage(t) ==
    /\ thr[t].pc = "assign_stage"
    /\ IF Me(t).current_conversation = Nil
       THEN /\ thr' = [thr EXCEPT ![t] = Except(thr[t])]
            /\ UNCHANGED agent
       ELSE /\ agent' = [agent EXCEPT
                   ![thr[t].user][1].current_conversation[1].stage =
                       thr[t].next_stage]
            /\ thr' = [thr EXCEPT ![t].pc = "generate"]
    /\ UNCHANGED <<convFile, calls, nreq, overlaps, purevars>>

\* get_campaign_context, the conversation context, then the generation
\* collaborator: self.thinker returns text, or the call raises (the
\* collaborator fails, or no thinker is bound to the agent)
Generate(t) ==
    /\ thr[t].pc = "generate"
    /\ \E generated \in BOOLEAN :
           thr' = [thr EXCEPT ![t] =
               IF Me(t).current_campaign = Nil \/ Me(t).current_conversation = Nil
                  \/ ~generated
               THEN Except(thr[t])
               ELSE [thr[t] EXCEPT !.pc = "add_agent", !.sub = "find",
                        !.mod = TranscriptMod("agent", GeneratedText)]]
    /\ UNCHANGED <<convFile, agent, calls, nreq, overlaps, purevars>>

\* the API handler turns the agent's return value into the HTTP response
Respond(t) ==
    /\ thr[t].pc = "respond"
    /\ thr' = [thr EXCEPT ![t] = IdleThread]
    /\ UNCHANGED <<convFile, agent, calls, nreq, overlaps, purevars>>

Next ==
    \E t \in Threads :
        \/ RequestStart(t)
        \/ RequestEnd(t)
        \/ RequestProcess(t)
        \/ StartCallEnter(t)
        \/ CreateLoad(t)
        \/ StartAssign(t)
        \/ StartOriginate(t)
        \/ EndCallEnter(t)
        \/ EndCallClear(t)
        \/ MethodFind(t)
        \/ MethodLoad(t)
        \/ UpdateLoad(t)
        \/ Save(t)
        \/ ProcessEnter(t)
        \/ Extract(t)
        \/ Evaluate(t)
        \/ AssignStage(t)
        \/ Generate(t)
        \/ Respond(t)

Spec == Init /\ [][Next]_vars

(***************************************************************************)
(* Specification SpecStarts: POST /calls/start requests served while other *)
(* requests (register, profile update) rewrite the users file              *)
(***************************************************************************)
RequestStartDuringWrite(t) ==
    \E u \in Users, contact \in ContactIds, campaign \in CampaignIds :
        \E user \in UserLookups(u) :
            Accepted(t, [IdleThread EXCEPT !.pc = "enter", !.op = "start",
                            !.user = u, !.contact = contact,
                            !.campaign = campaign],
                     MaxRequests, user)

NextStarts ==
    \E t \in Threads :
        \/ RequestStartDuringWrite(t)
        \/ StartCallEnter(t)
        \/ CreateLoad(t)
        \/ Save(t)
        \/ StartAssign(t)
        \/ StartOriginate(t)
        \/ Respond(t)

SpecStarts == Init /\ [][NextStarts]_vars

(***************************************************************************)
(* Specification SpecCalls: the same handlers when every caller starts a   *)
(* call on their own contact and campaign and then talks: two requests    *)
(* for each of them                                                        *)
(***************************************************************************)
CallsBudget == 2 * Cardinality(Users)

OwnContact(u) == CHOOSE c \in DOMAIN ContactOwner : ContactOwner[c] = u
OwnCampaign(u) == CHOOSE c \in DOMAIN CampaignOwner : CampaignOwner[c] = u

RequestOwnStart(t) ==
    \E u \in Users :
        /\ agent[u] = Nil
        /\ Accept(t, [IdleThread EXCEPT !.pc = "enter", !.op = "start", !.user = u,
                         !.contact = OwnContact(u), !.campaign = OwnCampaign(u)],
                  CallsBudget)

RequestNamedTurn(t) ==
    \E u \in Users :
        /\ agent[u] # Nil
        /\ Accept(t, [IdleThread EXCEPT !.pc = "enter", !.op = "process",
                         !.user = u, !.text = TextName(u)],
                  CallsBudget)

NextCalls ==
    \E t \in Threads :
        \/ RequestOwnStart(t)
        \/ RequestNamedTurn(t)
        \/ StartCallEnter(t)
        \/ CreateLoad(t)
        \/ StartAssign(t)
        \/ StartOriginate(t)
        \/ MethodFind(t)
        \/ MethodLoad(t)
        \/ UpdateLoad(t)
        \/ Save(t)
        \/ ProcessEnter(t)
        \/ Extract(t)
        \/ Evaluate(t)
        \/ AssignStage(t)
        \/ Generate(t)
        \/ Respond(t)

SpecCalls == Init /\ [][NextCalls]_vars

(***************************************************************************)
(* Specification SpecEval: the two evaluators on every bounded input       *)
(***************************************************************************)
RuleKeys == {"min_turns", "keywords", "sentiment_threshold", "transition_signals"}

FullRules ==
    [min_turns : 1..MaxTurnsSeen,
     keywords : {<<WordGo>>, <<WordNo, WordGo>>},
     sentiment_threshold : {5},
     transition_signals : {<<WordNo>>}]

RuleSets == {[k \in D |-> f[k]] : f \in FullRules, D \in SUBSET RuleKeys}

Inputs == {<<>>, <<"G", "o">>, <<"N", "o">>, <<"o", "k">>,
           <<"g", "o", " ", "n", "o">>}

Sentiments == {<<>>, <<3>>, <<5>>, <<7>>}

InitEval ==
    /\ eval \in [pc : {"ready"}, rules : RuleSets, turns : 0..MaxTurnsSeen,
                 input : Inputs, sentiment : Sentiments, result : {None}]
    /\ walk = IdleWalk
    /\ pipe = IdlePipe
    /\ MoreIdle
    /\ SysIdle

EvalLegacy ==
    /\ eval.pc = "ready"
    /\ eval' = [eval EXCEPT !.pc = "legacy",
                   !.result = should_transition_stage(eval.rules, eval.turns,
                                                      eval.input, eval.sentiment)]
    /\ UNCHANGED <<walk, pipe, morevars, sysvars>>

EvalTemplate ==
    /\ eval.pc = "ready"
    /\ eval' = [eval EXCEPT !.pc = "template",
                   !.result = should_transition_template(eval.rules, eval.turns,
                                                         eval.input)]
    /\ UNCHANGED <<walk, pipe, morevars, sysvars>>

NextEval == EvalLegacy \/ EvalTemplate

SpecEval == InitEval /\ [][NextEval]_vars

(***************************************************************************)
(* Specification SpecWalk: walking campaign.stages with get_next_stage     *)
(***************************************************************************)
RECURSIVE SeqsUpTo(_, _)
SeqsUpTo(S, n) ==
    IF n = 0 THEN {<<>>}
    ELSE LET shorter == SeqsUpTo(S, n - 1)
         IN  shorter \cup {Append(q, x) : q \in {r \in shorter : Len(r) = n - 1},
                                          x \in S}

InitWalk ==
    /\ walk \in [pc : {"new"}, stages : SeqsUpTo(CampaignStage, MaxStages),
                 cur : {None}, trail : {<<>>}, probe : {None}, result : {None}]
    /\ eval = IdleEval
    /\ pipe = IdlePipe
    /\ MoreIdle
    /\ SysIdle

\* the conversation starts at the first stage of the campaign
WalkStart ==
    /\ walk.pc = "new"
    /\ Len(walk.stages) >= 1
    /\ walk' = [walk EXCEPT !.pc = "walking", !.cur = walk.stages[1],
                   !.trail = <<walk.stages[1]>>]
    /\ UNCHANGED <<eval, pipe, morevars, sysvars>>

\* current stage := get_next_stage(campaign, current stage)
WalkAdvance ==
    /\ walk.pc = "walking"
    /\ Len(walk.trail) <= MaxStages + 1
    /\ LET next_stage == get_next_stage(walk.stages, walk.cur)
       IN  walk' = IF next_stage = None
                   THEN [walk EXCEPT !.pc = "ended", !.result = None]
                   ELSE [walk EXCEPT !.cur = next_stage,
                            !.trail = Append(walk.trail, next_stage),
                            !.result = next_stage]
    /\ UNCHANGED <<eval, pipe, morevars, sysvars>>

\* one call with an arbitrary current stage
WalkProbe ==
    /\ walk.pc = "new"
    /\ \E s \in CampaignStage :
           walk' = [walk EXCEPT !.pc = "probed", !.probe = s,
                       !.result = get_next_stage(walk.stages, s)]
    /\ UNCHANGED <<eval, pipe, morevars, sysvars>>

\* start_call: the new conversation gets CampaignStage.INTRODUCTION whatever
\* campaign.stages holds
WalkStartCall ==
    /\ walk.pc = "new"
    /\ walk' = [walk EXCEPT !.pc = "in_call", !.cur = "introduction",
                   !.trail = <<"introduction">>]
    /\ UNCHANGED <<eval, pipe, morevars, sysvars>>

\* a turn that decided to transition: the stage becomes get_next_stage(...)
\* when that is not None
WalkCallTurn ==
    /\ walk.pc = "in_call"
    /\ Len(walk.trail) <= MaxStages
    /\ LET next_stage == get_next_stage(walk.stages, walk.cur)
       IN  walk' = IF next_stage = None
                   THEN [walk EXCEPT !.trail = Append(walk.trail, walk.cur),
                            !.result = None]
                   ELSE [walk EXCEPT !.cur = next_stage,
                            !.trail = Append(walk.trail, next_stage),
                            !.result = next_stage]
    /\ UNCHANGED <<eval, pipe, morevars, sysvars>>

NextWalk == WalkStart \/ WalkAdvance \/ WalkProbe \/ WalkStartCall \/ WalkCallTurn

SpecWalk == InitWalk /\ [][NextWalk]_vars

(***************************************************************************)
(* Specification SpecRunStep: one run_step under every pattern of failing  *)
(* components                                                              *)
(***************************************************************************)
ReplyText == <<"o", "k">>

InitRunStep ==
    /\ pipe \in [pc : {"start"}, raises : SUBSET RunSteps,
                 tool_calls : BOOLEAN, response : {None}, escaped : {FALSE}]
    /\ eval = IdleEval
    /\ walk = IdleWalk
    /\ MoreIdle
    /\ SysIdle

\* stt, nlp, campaign loader and orchestrator, each under _safe; then the
\* tool calls the orchestrator asked for, which run unguarded
RunStepOrchestrate ==
    /\ pipe.pc = "start"
    /\ LET tool_calls == Safe("orchestrator" \in pipe.raises, pipe.tool_calls, FALSE)
       IN  pipe' = IF tool_calls /\ "tool" \in pipe.raises
                   THEN [pipe EXCEPT !.pc = "raised", !.escaped = TRUE]
                   ELSE [pipe EXCEPT !.pc = "orchestrated"]
    /\ UNCHANGED <<eval, walk, morevars, sysvars>>

\* responder and tts under _safe
RunStepRespond ==
    /\ pipe.pc = "orchestrated"
    /\ pipe' = [pipe EXCEPT !.pc = "responded",
                   !.response = Safe("responder" \in pipe.raises, ReplyText, <<>>)]
    /\ UNCHANGED <<eval, walk, morevars, sysvars>>

\* CallLogger.log: the repository append is guarded, _write_json is not
RunStepLog ==
    /\ pipe.pc = "responded"
    /\ pipe' = IF "log" \in pipe.raises
               THEN [pipe EXCEPT !.pc = "raised", !.escaped = TRUE]
               ELSE [pipe EXCEPT !.pc = "returned"]
    /\ UNCHANGED <<eval, walk, morevars, sysvars>>

NextRunStep == RunStepOrchestrate \/ RunStepRespond \/ RunStepLog

SpecRunStep == InitRunStep /\ [][NextRunStep]_vars

(***************************************************************************)
(* Specification SpecAgents: get_call_agent under its lock, then the turn  *)
(***************************************************************************)
IdleLookup == [pc |-> "idle", user |-> "none", got |-> Nil]

InitAgents ==
    /\ reg = [pc |-> "serving",
              lock |-> Nil,
              call_agents |-> [u \in Users |-> Nil],
              made |-> [u \in Users |-> 0],
              returned |-> [u \in Users |-> {}],
              w |-> [t \in Threads |-> IdleLookup],
              n |-> 0]
    /\ eval = IdleEval
    /\ walk = IdleWalk
    /\ pipe = IdlePipe
    /\ rec = IdleRec
    /\ script = IdleScript
    /\ brain = IdleBrain
    /\ LaterIdle
    /\ SysIdle

notReg == <<eval, walk, pipe, rec, script, brain, latervars, sysvars>>

\* process_input reaches agent = get_call_agent(user.id)
AgentsRequest(t) ==
    /\ reg.w[t].pc = "idle"
    /\ reg.n < MaxLookups
    /\ \E u \in Users :
           reg' = [reg EXCEPT !.w[t] = [IdleLookup EXCEPT !.pc = "acquire",
                                                          !.user = u],
                              !.n = @ + 1]
    /\ UNCHANGED notReg

AgentsAcquire_unlocked(t) ==
    /\ reg.w[t].pc = "acquire"
    /\ reg' = [reg EXCEPT !.lock = Some(t), !.w[t].pc = "lookup"]
    /\ UNCHANGED notReg

\* with call_agent_lock: the thread waits until the lock is free
AgentsAcquire(t) ==
    /\ reg.w[t].pc = "acquire"
    /\ reg.lock = Nil
    /\ reg' = [reg EXCEPT !.lock = Some(t), !.w[t].pc = "lookup"]
    /\ UNCHANGED notReg

\* if user_id not in call_agents
AgentsLookup(t) ==
    /\ reg.w[t].pc = "lookup"
    /\ reg' = [reg EXCEPT !.w[t].pc =
                  IF reg.call_agents[reg.w[t].user] = Nil THEN "construct"
                  ELSE "return"]
    /\ UNCHANGED notReg

\* UserManager lookup and CallAgent(user=user, device_id=1): the new agent is
\* stored, or the constructor raises and the with block releases the lock
AgentsConstruct(t) ==
    /\ reg.w[t].pc = "construct"
    /\ LET u == reg.w[t].user
       IN  \E built \in BOOLEAN :
               reg' = IF built
                      THEN [reg EXCEPT
                               !.call_agents[u] = Some(<<u, reg.made[u] + 1>>),
                               !.made[u] = @ + 1,
                               !.w[t].pc = "return"]
                      ELSE [reg EXCEPT !.lock = Nil, !.w[t] = IdleLookup]
    /\ UNCHANGED notReg

AgentsReturn_holding(t) ==
    /\ reg.w[t].pc = "return"
    /\ LET u == reg.w[t].user
       IN  reg' = [reg EXCEPT !.w[t].got = reg.call_agents[u],
                              !.w[t].pc = "turn",
                              !.returned[u] = @ \cup {reg.call_agents[u][1]}]
    /\ UNCHANGED notReg

\* return call_agents[user_id]: leaving the with block releases the lock
AgentsReturn(t) ==
    /\ reg.w[t].pc = "return"
    /\ LET u == reg.w[t].user
       IN  reg' = [reg EXCEPT !.lock = Nil,
                              !.w[t].got = reg.call_agents[u],
                              !.w[t].pc = "turn",
                              !.returned[u] = @ \cup {reg.call_agents[u][1]}]
    /\ UNCHANGED notReg

\* agent.process_user_input up to the call of the generation collaborator
AgentsTurn(t) ==
    /\ reg.w[t].pc = "turn"
    /\ reg' = [reg EXCEPT !.w[t].pc = "generating"]
    /\ UNCHANGED notReg

\* the collaborator answers and the handler returns
AgentsGenerated(t) ==
    /\ reg.w[t].pc = "generating"
    /\ reg' = [reg EXCEPT !.w[t] = IdleLookup]
    /\ UNCHANGED notReg

NextAgents ==
    \E t \in Threads :
        \/ AgentsRequest(t)
        \/ AgentsAcquire(t)
        \/ AgentsLookup(t)
        \/ AgentsConstruct(t)
        \/ AgentsReturn(t)
        \/ AgentsTurn(t)
        \/ AgentsGenerated(t)

SpecAgents == InitAgents /\ [][NextAgents]_vars

(***************************************************************************)
(* Specification SpecRecording: start_recording, the recording thread and  *)
(* cleanup of one CallAgent                                                *)
(***************************************************************************)
InitRecording ==
    /\ rec = [pc |-> "live", is_recording |-> FALSE, thread |-> "none",
              others |-> 0, already |-> FALSE,
              frames |-> 0, recognizer |-> "open", tts |-> "open"]
    /\ eval = IdleEval
    /\ walk = IdleWalk
    /\ pipe = IdlePipe
    /\ reg = IdleReg
    /\ script = IdleScript
    /\ brain = IdleBrain
    /\ LaterIdle
    /\ SysIdle

notRec == <<eval, walk, pipe, reg, script, brain, latervars, sysvars>>

\* start_recording without the test of self.is_recording: a thread is started
\* on every call
RecStart_again ==
    /\ rec.pc = "live"
    /\ rec' = [rec EXCEPT !.is_recording = TRUE, !.thread = "running",
                          !.others = IF rec.thread = "running" THEN @ + 1 ELSE @]
    /\ UNCHANGED notRec

\* start_recording: "Already recording" and nothing else when the flag is up,
\* else the flag is set and a thread is started and bound to
\* self.recording_thread. thread is the state of the thread
\* self.recording_thread refers to, others counts the running threads it
\* referred to before and was taken from
RecStart ==
    /\ rec.pc = "live"
    /\ rec' = IF rec.is_recording
              THEN [rec EXCEPT !.already = TRUE]
              ELSE [rec EXCEPT !.is_recording = TRUE, !.thread = "running",
                       !.others = IF rec.thread = "running" THEN @ + 1 ELSE @]
    /\ UNCHANGED notRec

\* _record_audio: one pass of `while self.is_recording`, a frame is written
\* or the stream raises; the thread ends when the flag is down
RecLoop ==
    /\ rec.thread = "running"
    /\ \/ /\ rec.is_recording
          /\ rec.frames < MaxFrames
          /\ rec' = [rec EXCEPT !.frames = @ + 1]
       \/ /\ rec.is_recording
          /\ rec' = [rec EXCEPT !.thread = "ended"]
       \/ /\ ~rec.is_recording
          /\ rec' = [rec EXCEPT !.thread = "ended"]
    /\ UNCHANGED notRec

\* stop_recording called by the call loop: flag down, then join
RecStop ==
    /\ rec.pc = "live"
    /\ rec.is_recording
    /\ rec' = [rec EXCEPT !.is_recording = FALSE, !.pc = "stop_join"]
    /\ UNCHANGED notRec

RecStopJoin ==
    /\ rec.pc = "stop_join"
    /\ rec.thread # "running"
    /\ rec' = [rec EXCEPT !.pc = "live"]
    /\ UNCHANGED notRec

\* cleanup: self.recognizer.cleanup(); the recognizer is a collaborator that
\* releases its device or raises
CleanupRecognizer ==
    /\ rec.pc = "live"
    /\ \E released \in BOOLEAN :
           rec' = IF released
                  THEN [rec EXCEPT !.pc = "tts", !.recognizer = "released"]
                  ELSE [rec EXCEPT !.pc = "raised"]
    /\ UNCHANGED notRec

\* cleanup: self.tts.cleanup(), whose body is `pass`
CleanupTts ==
    /\ rec.pc = "tts"
    /\ rec' = [rec EXCEPT !.pc = "recording", !.tts = "released"]
    /\ UNCHANGED notRec

\* cleanup: if self.is_recording: self.stop_recording() -- the flag goes down
CleanupStop ==
    /\ rec.pc = "recording"
    /\ rec' = IF rec.is_recording
              THEN [rec EXCEPT !.is_recording = FALSE, !.pc = "join"]
              ELSE [rec EXCEPT !.pc = "returned"]
    /\ UNCHANGED notRec

\* stop_recording: self.recording_thread.join()
CleanupJoin ==
    /\ rec.pc = "join"
    /\ rec.thread # "running"
    /\ rec' = [rec EXCEPT !.pc = "returned"]
    /\ UNCHANGED notRec

NextRecording ==
    \/ RecStart
    \/ RecLoop
    \/ RecStop
    \/ RecStopJoin
    \/ CleanupRecognizer
    \/ CleanupTts
    \/ CleanupStop
    \/ CleanupJoin

SpecRecording == InitRecording /\ [][NextRecording]_vars

(***************************************************************************)
(* Specification SpecScript: the placeholder substitution of                *)
(* get_campaign_script, applied once and then to its own output            *)
(***************************************************************************)
StartsWith(text, prefix) ==
    /\ Len(prefix) <= Len(text)
    /\ SubSeq(text, 1, Len(prefix)) = prefix

\* str.replace(old, new) for a non-empty old: leftmost occurrences, not
\* overlapping, the inserted text is not scanned again
RECURSIVE StrReplace(_, _, _)
StrReplace(text, old, new) ==
    IF text = <<>> THEN <<>>
    ELSE IF StartsWith(text, old)
    THEN new \o StrReplace(SubSeq(text, Len(old) + 1, Len(text)), old, new)
    ELSE <<Head(text)>> \o StrReplace(Tail(text), old, new)

\* f"{{{key}}}"
Placeholder(key) == <<"{">> \o key \o <<"}">>

\* for key, value in context.items(): script = script.replace(placeholder, value)
\* -- context is the list of items in the dict's insertion order
RECURSIVE Substitute(_, _)
Substitute(text, context) ==
    IF context = <<>> THEN text
    ELSE Substitute(StrReplace(text, Placeholder(context[1][1]), context[1][2]),
                    Tail(context))

ScriptKeys == {<<"a">>, <<"b">>}
ScriptValues == {<<>>, <<"x">>, <<"{", "b", "}">>, <<"a", "}">>}
ScriptTexts ==
    {<<>>, <<"h", "i">>, <<"{", "a", "}">>, <<"{", "a", "}", " ", "{", "b", "}">>,
     <<"{", "{", "a", "}", "b", "}">>, <<"{", "c", "}">>}

\* dict items: at most MaxContext of them, the keys distinct
Contexts ==
    {q \in SeqsUpTo(ScriptKeys \X ScriptValues, MaxContext) :
        \A i, j \in 1..Len(q) : q[i][1] = q[j][1] => i = j}

\* DocumentManager.get_document_placeholders: what the campaign's documents
\* give, nothing or one item
DocumentPlaceholders == {<<>>, << <<(<<"b">>), (<<"x">>)>> >>}

\* d[key] = value on the items of a dict: an existing key keeps its place
SetItem(d, key, value) ==
    IF \E i \in 1..Len(d) : d[i][1] = key
    THEN [i \in 1..Len(d) |-> IF d[i][1] = key THEN <<key, value>> ELSE d[i]]
    ELSE Append(d, <<key, value>>)

\* dict.update(other)
RECURSIVE dict_update(_, _)
dict_update(d, other) ==
    IF other = <<>> THEN d
    ELSE dict_update(SetItem(d, other[1][1], other[1][2]), Tail(other))

\* full_context = context or {}; full_context.update(document_placeholders):
\* a non-empty context is the caller's own dict, an empty one is replaced by
\* a new dict. full_context is what the loop substitutes, caller is the
\* caller's dict afterwards
merge_context(context, document_placeholders) ==
    [full_context |-> dict_update(context, document_placeholders),
     caller |-> IF context = <<>> THEN context
                ELSE dict_update(context, document_placeholders)]

\* context is the map the caller holds before the first call, caller the
\* same map as the calls leave it
InitScript ==
    /\ \E text \in ScriptTexts, context \in Contexts :
       \E documents \in DocumentPlaceholders :
           script = [pc |-> "template", text |-> text, context |-> context,
                     documents |-> documents, caller |-> context,
                     once |-> <<>>, twice |-> <<>>]
    /\ eval = IdleEval
    /\ walk = IdleWalk
    /\ pipe = IdlePipe
    /\ reg = IdleReg
    /\ rec = IdleRec
    /\ brain = IdleBrain
    /\ LaterIdle
    /\ SysIdle

notScript == <<eval, walk, pipe, reg, rec, brain, latervars, sysvars>>

\* get_campaign_script on the stored script
ScriptFirst ==
    /\ script.pc = "template"
    /\ LET merged == merge_context(script.caller, script.documents)
       IN  script' = [script EXCEPT !.pc = "once", !.caller = merged.caller,
                         !.once = Substitute(script.text, merged.full_context)]
    /\ UNCHANGED notScript

\* the same substitution on the text it returned
ScriptAgain ==
    /\ script.pc = "once"
    /\ LET merged == merge_context(script.caller, script.documents)
       IN  script' = [script EXCEPT !.pc = "twice", !.caller = merged.caller,
                         !.twice = Substitute(script.once, merged.full_context)]
    /\ UNCHANGED notScript

NextScript == ScriptFirst \/ ScriptAgain

SpecScript == InitScript /\ [][NextScript]_vars

(***************************************************************************)
(* Specification SpecBrain: ConversationPipeline.process_user_input, the   *)
(* NLPExtractor it calls first and the MidConversationBrain it calls next  *)
(***************************************************************************)
\* intent_keywords of _extract_intent, in the order of the dict
intent_keywords == <<
    [intent |-> "interested", keywords |->
      <<<<"i", "n", "t", "e", "r", "e", "s", "t", "e", "d">>,
       <<"t", "e", "l", "l", " ", "m", "e", " ", "m", "o", "r", "e">>,
       <<"s", "o", "u", "n", "d", "s", " ", "g", "o", "o", "d">>,
       <<"y", "e", "s">>>>],
    [intent |-> "not_interested", keywords |->
      <<<<"n", "o", "t", " ", "i", "n", "t", "e", "r", "e", "s", "t", "e", "d">>,
       <<"n", "o", " ", "t", "h", "a", "n", "k", "s">>,
       <<"n", "o", "t", " ", "n", "o", "w">>,
       <<"b", "u", "s", "y">>>>],
    [intent |-> "objection", keywords |->
      <<<<"e", "x", "p", "e", "n", "s", "i", "v", "e">>,
       <<"c", "o", "s", "t">>,
       <<"p", "r", "i", "c", "e">>,
       <<"b", "u", "d", "g", "e", "t">>,
       <<"t", "h", "i", "n", "k", " ", "a", "b", "o", "u", "t", " ", "i", "t">>>>],
    [intent |-> "question", keywords |->
      <<<<"h", "o", "w">>,
       <<"w", "h", "a", "t">>,
       <<"w", "h", "e", "n">>,
       <<"w", "h", "e", "r", "e">>,
       <<"w", "h", "y">>,
       <<"q", "u", "e", "s", "t", "i", "o", "n">>>>],
    [intent |-> "request_info", keywords |->
      <<<<"s", "e", "n", "d">>,
       <<"e", "m", "a", "i", "l">>,
       <<"b", "r", "o", "c", "h", "u", "r", "e">>,
       <<"i", "n", "f", "o", "r", "m", "a", "t", "i", "o", "n">>,
       <<"d", "e", "t", "a", "i", "l", "s">>>>]>>

positive_words ==
    <<<<"g", "o", "o", "d">>,
       <<"g", "r", "e", "a", "t">>,
       <<"e", "x", "c", "e", "l", "l", "e", "n", "t">>,
       <<"a", "m", "a", "z", "i", "n", "g">>,
       <<"l", "o", "v", "e">>,
       <<"l", "i", "k", "e">>,
       <<"h", "a", "p", "p", "y">>,
       <<"s", "a", "t", "i", "s", "f", "i", "e", "d">>>>

negative_words ==
    <<<<"b", "a", "d">>,
       <<"t", "e", "r", "r", "i", "b", "l", "e">>,
       <<"a", "w", "f", "u", "l">>,
       <<"h", "a", "t", "e">>,
       <<"d", "i", "s", "l", "i", "k", "e">>,
       <<"u", "n", "h", "a", "p", "p", "y">>,
       <<"d", "i", "s", "s", "a", "t", "i", "s", "f", "i", "e", "d">>,
       <<"p", "r", "o", "b", "l", "e", "m">>>>

objection_keywords ==
    <<<<"e", "x", "p", "e", "n", "s", "i", "v", "e">>,
       <<"c", "o", "s", "t">>,
       <<"p", "r", "i", "c", "e">>,
       <<"b", "u", "d", "g", "e", "t">>,
       <<"t", "h", "i", "n", "k", " ", "a", "b", "o", "u", "t", " ", "i", "t">>,
       <<"n", "o", "t", " ", "s", "u", "r", "e">>,
       <<"c", "o", "n", "c", "e", "r", "n", "e", "d">>>>

pain_point_keywords ==
    <<<<"p", "r", "o", "b", "l", "e", "m">>,
       <<"c", "h", "a", "l", "l", "e", "n", "g", "e">>,
       <<"i", "s", "s", "u", "e">>,
       <<"s", "t", "r", "u", "g", "g", "l", "e">>,
       <<"d", "i", "f", "f", "i", "c", "u", "l", "t", "y">>,
       <<"f", "r", "u", "s", "t", "r", "a", "t", "i", "o", "n">>>>

WordBusy == <<"b", "u", "s", "y">>
WordTime == <<"t", "i", "m", "e">>
WordDollar == <<"d", "o", "l", "l", "a", "r">>
WordUsd == <<"u", "s", "d">>

\* values of the CampaignType enum
CampaignTypeValues == {<<"s", "a", "l", "e", "s">>, <<"s", "u", "p", "p", "o", "r", "t">>, <<"s", "u", "r", "v", "e", "y">>, <<"a", "p", "p", "o", "i", "n", "t", "m", "e", "n", "t">>}

\* what the caller says
Utterances ==
    {<<"t", "o", "o", " ", "e", "x", "p", "e", "n", "s", "i", "v", "e">>,
     <<"h", "e", "l", "l", "o">>,
     <<"B", "u", "s", "y">>,
     <<"y", "e", "s">>,
     <<"a", " ", "p", "r", "o", "b", "l", "e", "m">>,
     <<"$", "5">>,
     <<"$", "5", " ", "c", "o", "s", "t">>,
     <<"5", " ", "d", "o", "l", "l", "a", "r", "s">>}

\* campaign_context['campaign_type'], when the key is there
GivenCampaignTypes == {<<"s", "A", "l", "e", "s">>, <<"s", "u", "p", "p", "o", "r", "t">>, <<"r", "e", "t", "e", "n", "t", "i", "o", "n">>}

Digits == {"0", "1", "2", "3", "4", "5", "6", "7", "8", "9"}
Whitespace == {" "}

\* the objects extract_from_text stores: dataclass instances, which have
\* attributes and no get method
\* a confidence is kept as the fraction the code divides out
Fraction(num, den) == [num |-> num, den |-> den]

ExtractedData(field_name, value, confidence) ==
    [obj |-> "ExtractedData", field_name |-> field_name, value |-> value,
     confidence |-> confidence]

\* the keywords of the list that occur in the text, in list order
RECURSIVE Found(_, _, _)
Found(keywords, text_lower, i) ==
    IF i > Len(keywords) THEN <<>>
    ELSE (IF Contains(text_lower, LowerStr(keywords[i]))
          THEN <<keywords[i]>> ELSE <<>>)
         \o Found(keywords, text_lower, i + 1)

\* the mutation: the threshold has to be exceeded
extract_keywords_above(text, rule) ==
    LET found_keywords == Found(rule.keywords, LowerStr(text), 1)
    IN  IF rule.keywords = <<>> \/ found_keywords = <<>> THEN Nil
        ELSE IF Len(found_keywords) * 100
                    > rule.confidence_threshold * Len(rule.keywords)
             THEN Some(ExtractedData(rule.field_name, found_keywords,
                       Fraction(Len(found_keywords), Len(rule.keywords))))
             ELSE Nil

\* _extract_keywords; thresholds are kept in hundredths
extract_keywords(text, rule) ==
    LET found_keywords == Found(rule.keywords, LowerStr(text), 1)
    IN  IF rule.keywords = <<>> \/ found_keywords = <<>> THEN Nil
        ELSE IF Len(found_keywords) * 100
                    >= rule.confidence_threshold * Len(rule.keywords)
             THEN Some(ExtractedData(rule.field_name, found_keywords,
                       Fraction(Len(found_keywords), Len(rule.keywords))))
             ELSE Nil

\* re.findall(r"\$(\d{1,3}(?:,\d{3})*(?:\.\d{2})?)", text) is not empty:
\* a dollar sign with a digit right after it
MatchDollarPrefix(text) ==
    \E i \in 1..(Len(text) - 1) : text[i] = "$" /\ text[i + 1] \in Digits

\* re.findall(r"(\d{1,3}(?:,\d{3})*(?:\.\d{2})?)\s*(?:dollars?|USD)", text,
\* re.IGNORECASE) is not empty: a digit, any whitespace, then the unit
MatchDollarSuffix(text) ==
    \E i \in 1..Len(text) : \E j \in (i + 1)..Len(text) :
        /\ text[i] \in Digits
        /\ \A k \in (i + 1)..(j - 1) : text[k] \in Whitespace
        /\ \E unit \in {WordDollar, WordUsd} :
              /\ j + Len(unit) - 1 <= Len(text)
              /\ LowerStr(SubSeq(text, j, j + Len(unit) - 1)) = unit

\* re.findall raises re.error for a pattern that does not compile, such as
\* one with an unbalanced parenthesis
PatternRaises(pattern) == pattern = "unbalanced_parenthesis"

MatchPattern(pattern, text) ==
    IF pattern = "dollar_prefix" THEN MatchDollarPrefix(text)
    ELSE MatchDollarSuffix(text)

\* _extract_patterns
extract_patterns(text, rule) ==
    IF \E i \in 1..Len(rule.patterns) : MatchPattern(rule.patterns[i], text)
    THEN Some(ExtractedData(rule.field_name, <<"match">>, Fraction(9, 10)))
    ELSE Nil

\* _extract_sentiment: always an entry
extract_sentiment(text, rule) ==
    LET positive_count == Len(Found(positive_words, LowerStr(text), 1))
        negative_count == Len(Found(negative_words, LowerStr(text), 1))
    IN  Some(ExtractedData(rule.field_name,
            IF positive_count > negative_count THEN "positive"
            ELSE IF negative_count > positive_count THEN "negative"
            ELSE "neutral",
            IF positive_count > negative_count
            THEN Fraction(positive_count, positive_count + negative_count + 1)
            ELSE IF negative_count > positive_count
            THEN Fraction(negative_count, positive_count + negative_count + 1)
            ELSE Fraction(5, 10)))

\* _extract_intent: the first bucket with a keyword in the text, else
\* "general"; always an entry
extract_intent(text, rule) ==
    LET text_lower == LowerStr(text)
        hit(b) == Found(intent_keywords[b].keywords, text_lower, 1) # <<>>
    IN  Some(ExtractedData(rule.field_name,
            IF \E b \in 1..Len(intent_keywords) : hit(b)
            THEN intent_keywords[
                     CHOOSE b \in 1..Len(intent_keywords) :
                         hit(b) /\ \A a \in 1..(b - 1) : ~hit(a)].intent
            ELSE "general",
            IF \E b \in 1..Len(intent_keywords) : hit(b)
            THEN Fraction(8, 10) ELSE Fraction(5, 10)))

\* _apply_extraction_rule
apply_extraction_rule(text, rule) ==
    IF rule.extraction_type = "keyword" THEN extract_keywords(text, rule)
    ELSE IF rule.extraction_type = "pattern" THEN extract_patterns(text, rule)
    ELSE IF rule.extraction_type = "sentiment"
         THEN extract_sentiment(text, rule)
    ELSE IF rule.extraction_type = "intent" THEN extract_intent(text, rule)
    ELSE Nil

\* _extract_patterns searches every pattern of the rule, so it raises when
\* one of them does; no other extractor can raise
RuleRaises(rule) ==
    /\ rule.extraction_type = "pattern"
    /\ \E i \in 1..Len(rule.patterns) : PatternRaises(rule.patterns[i])

RECURSIVE ApplyRules(_, _, _)
ApplyRules(text, rules, i) ==
    IF i > Len(rules) THEN EmptyDict
    ELSE LET result == apply_extraction_rule(text, rules[i])
             rest == ApplyRules(text, rules, i + 1)
         IN  IF result = Nil \/ Has(rest, rules[i].field_name) THEN rest
             ELSE Put(rest, rules[i].field_name, result[1])

\* extract_from_text: {} when the campaign id has no rules
extract_from_text(text, campaign_rules) ==
    IF campaign_rules = Nil THEN EmptyDict
    ELSE ApplyRules(text, campaign_rules[1], 1)

\* extract_from_text has no handler around its loop: the exception of a rule
\* leaves the loop and the method
ExtractRaises(campaign_rules) ==
    /\ campaign_rules # Nil
    /\ \E i \in 1..Len(campaign_rules[1]) : RuleRaises(campaign_rules[1][i])

ExtractionRule(field_name, extraction_type, keywords, patterns) ==
    [field_name |-> field_name, extraction_type |-> extraction_type,
     keywords |-> keywords, patterns |-> patterns,
     confidence_threshold |-> 70]

\* _get_default_extraction_rules
get_default_extraction_rules ==
    <<ExtractionRule("intent", "intent", <<>>, <<>>),
      ExtractionRule("sentiment", "sentiment", <<>>, <<>>),
      ExtractionRule("pain_point", "keyword", pain_point_keywords, <<>>),
      ExtractionRule("budget_range", "pattern", <<>>,
                     <<"dollar_prefix", "dollar_suffix">>)>>

\* campaign_config['nlp_extraction_rules'] of the campaigns that are set up
RuleConfigs ==
    {<<>>,
     <<ExtractionRule("pain_point", "keyword", <<pain_point_keywords[1]>>,
                      <<>>)>>,
     <<ExtractionRule("pain_point", "keyword", <<pain_point_keywords[1]>>,
                      <<>>),
       ExtractionRule("budget_range", "pattern", <<>>, <<"dollar_prefix">>)>>,
     <<ExtractionRule("budget_range", "pattern", <<>>,
                      <<"unbalanced_parenthesis">>),
       ExtractionRule("pain_point", "keyword", <<pain_point_keywords[1]>>,
                      <<>>)>>}

\* _extract_nlp_rules_from_campaign
extract_nlp_rules_from_campaign(nlp_rules_config) ==
    IF nlp_rules_config = <<>> THEN get_default_extraction_rules
    ELSE nlp_rules_config

\* x.get('value') is defined for a dict and raises AttributeError otherwise
HasGet(x) == x.obj = "dict"

ConversationAnalysis(analysis_type, recommended_action, priority) ==
    [analysis_type |-> analysis_type,
     recommended_action |-> recommended_action, priority |-> priority]

\* _analyze_stage_transition
analyze_stage_transition(extracted_data, required_data) ==
    LET missing_required ==
            {f \in DOMAIN required_data :
                 required_data[f] /\ ~Has(extracted_data, f)}
    IN  IF missing_required = {}
        THEN Some(ConversationAnalysis("stage_transition",
                                       "transition_to_next_stage", 7))
        ELSE Nil

\* _analyze_objections
analyze_objections(user_input) ==
    IF Found(objection_keywords, LowerStr(user_input), 1) # <<>>
    THEN Some(ConversationAnalysis("objection_handling",
                                   "address_objections", 9))
    ELSE Nil

\* _analyze_opportunities raises when it calls get on an entry without one
OpportunitiesRaise(extracted_data) ==
    \E f \in {"intent", "timeline"} :
        Has(extracted_data, f) /\ ~HasGet(extracted_data[f])

analyze_opportunities(extracted_data) ==
    LET buying_signal ==
            Has(extracted_data, "intent")
                /\ extracted_data["intent"].value = "interested"
        urgency_indicated ==
            Has(extracted_data, "timeline")
                /\ extracted_data["timeline"].value = "urgent"
    IN  IF \/ buying_signal
           \/ Has(extracted_data, "budget_range")
           \/ Has(extracted_data, "decision_maker")
           \/ urgency_indicated
        THEN Some(ConversationAnalysis("opportunity_detection",
                                       "capitalize_on_opportunities", 8))
        ELSE Nil

\* _analyze_risks raises in the same way
RisksRaise(extracted_data) ==
    \E f \in {"sentiment", "intent"} :
        Has(extracted_data, f) /\ ~HasGet(extracted_data[f])

analyze_risks(extracted_data, user_input) ==
    LET negative_sentiment ==
            Has(extracted_data, "sentiment")
                /\ extracted_data["sentiment"].value = "negative"
        disinterest ==
            Has(extracted_data, "intent")
                /\ extracted_data["intent"].value = "not_interested"
        time_pressure ==
            \/ Contains(LowerStr(user_input), WordBusy)
            \/ Contains(LowerStr(user_input), WordTime)
    IN  IF negative_sentiment \/ disinterest \/ time_pressure
        THEN Some(ConversationAnalysis("risk_assessment", "mitigate_risks", 6))
        ELSE Nil

\* sorted(analyses, key=lambda x: x.priority, reverse=True): stable
RECURSIVE Insert(_, _)
Insert(sorted, a) ==
    IF sorted = <<>> THEN <<a>>
    ELSE IF Head(sorted).priority >= a.priority
         THEN <<Head(sorted)>> \o Insert(Tail(sorted), a)
         ELSE <<a>> \o sorted

RECURSIVE SortByPriority(_)
SortByPriority(analyses) ==
    IF analyses = <<>> THEN <<>>
    ELSE Insert(SortByPriority(SubSeq(analyses, 1, Len(analyses) - 1)),
                analyses[Len(analyses)])

\* _determine_primary_goal taking the last analysis of the sorted list
determine_primary_goal_last(analyses) ==
    IF analyses = <<>> THEN "continue_conversation"
    ELSE LET t == analyses[Len(analyses)].analysis_type
         IN  IF t = "objection_handling" THEN "address_objections"
             ELSE IF t = "opportunity_detection"
                  THEN "capitalize_on_opportunities"
             ELSE IF t = "stage_transition" THEN "transition_stage"
             ELSE IF t = "risk_assessment" THEN "mitigate_risks"
             ELSE "continue_conversation"

\* _determine_primary_goal
determine_primary_goal(analyses) ==
    IF analyses = <<>> THEN "continue_conversation"
    ELSE LET t == analyses[1].analysis_type
         IN  IF t = "objection_handling" THEN "address_objections"
             ELSE IF t = "opportunity_detection"
                  THEN "capitalize_on_opportunities"
             ELSE IF t = "stage_transition" THEN "transition_stage"
             ELSE IF t = "risk_assessment" THEN "mitigate_risks"
             ELSE "continue_conversation"

\* one list entry per analysis whose type is a key of the table, in order
RECURSIVE PerType(_, _)
PerType(analyses, table) ==
    IF analyses = <<>> THEN <<>>
    ELSE (IF Has(table, Head(analyses).analysis_type)
          THEN table[Head(analyses).analysis_type] ELSE <<>>)
         \o PerType(Tail(analyses), table)

\* _determine_secondary_goals: analyses[1:3]
determine_secondary_goals(analyses) ==
    PerType(SubSeq(analyses, 2, IF Len(analyses) < 3 THEN Len(analyses) ELSE 3),
            [objection_handling |-> <<"build_trust">>,
             opportunity_detection |-> <<"gather_more_info">>,
             stage_transition |-> <<"prepare_next_stage">>])

\* _determine_tone_adjustment: the first analysis that sets a tone
determine_tone_adjustment(analyses) ==
    LET tones == PerType(analyses,
            [objection_handling |-> <<"empathetic_and_understanding">>,
             risk_assessment |-> <<"calm_and_reassuring">>,
             opportunity_detection |-> <<"enthusiastic_and_engaging">>])
    IN  IF tones = <<>> THEN "professional_and_friendly" ELSE tones[1]

\* _determine_focus_areas
determine_focus_areas(analyses) ==
    PerType(analyses,
            [objection_handling |-> <<"addressing_concerns">>,
             opportunity_detection |-> <<"exploring_opportunities">>,
             stage_transition |-> <<"stage_progression">>])

\* _determine_avoid_topics
determine_avoid_topics(analyses) ==
    PerType(analyses,
            [risk_assessment |-> <<"pricing_details", "pressure_tactics">>])

\* _generate_next_questions
generate_next_questions(analyses) ==
    PerType(analyses,
            [objection_handling |->
                 <<"What specific concerns do you have about our solution?">>,
             opportunity_detection |->
                 <<"What would be the ideal timeline for implementation?">>,
             stage_transition |->
                 <<"Are you ready to discuss the next steps?">>])

CountType(analyses, t) ==
    Cardinality({i \in 1..Len(analyses) : analyses[i].analysis_type = t})

Min(a, b) == IF a < b THEN a ELSE b

\* _calculate_urgency_level
calculate_urgency_level(analyses) ==
    Min(5 + 2 * CountType(analyses, "opportunity_detection")
          + CountType(analyses, "risk_assessment"), 10)

\* _calculate_risk_level
calculate_risk_level(analyses) ==
    Min(3 + 3 * CountType(analyses, "risk_assessment")
          + 2 * CountType(analyses, "objection_handling"), 10)

StrategicInstruction(goal, goals, tone, focus, avoid, questions, u, r) ==
    [primary_goal |-> goal, secondary_goals |-> goals,
     tone_adjustment |-> tone, focus_areas |-> focus,
     avoid_topics |-> avoid, next_questions |-> questions,
     urgency_level |-> u, risk_level |-> r]

\* _generate_strategic_instruction
generate_strategic_instruction(analyses) ==
    LET sorted_analyses == SortByPriority(analyses)
    IN  StrategicInstruction(
            determine_primary_goal(sorted_analyses),
            determine_secondary_goals(sorted_analyses),
            determine_tone_adjustment(sorted_analyses),
            determine_focus_areas(sorted_analyses),
            determine_avoid_topics(sorted_analyses),
            generate_next_questions(sorted_analyses),
            calculate_urgency_level(sorted_analyses),
            calculate_risk_level(sorted_analyses))

\* the analyses analyze_conversation collects, in the order it makes them,
\* when none of them raises
Analyses(user_input, extracted_data, required_data) ==
    analyze_stage_transition(extracted_data, required_data)
        \o analyze_objections(user_input)
        \o analyze_opportunities(extracted_data)
        \o analyze_risks(extracted_data, user_input)

\* analyze_conversation raises when one of its analyses does
AnalyzeRaises(extracted_data) ==
    OpportunitiesRaise(extracted_data) \/ RisksRaise(extracted_data)

\* _build_llm_context raises ValueError for a campaign type outside the enum
BuildContextRaises(campaign_type) ==
    LowerStr(campaign_type) \notin CampaignTypeValues

WordSales == <<"s", "a", "l", "e", "s">>

\* campaign_context.get('campaign_type', 'sales')
CampaignTypeOf(given) == IF given = Nil THEN WordSales ELSE given[1]

\* _get_fallback_response
get_fallback_response(campaign_type) ==
    IF campaign_type = WordSales
    THEN "I understand. Could you tell me more about your current situation?"
    ELSE IF campaign_type = <<"s", "u", "p", "p", "o", "r", "t">>
    THEN "I apologize for the technical issue. Let me help you with that."
    ELSE IF campaign_type = <<"s", "u", "r", "v", "e", "y">>
    THEN "Thank you for your time. Let me continue with the next question."
    ELSE "I understand. Let me help you find a better time."

\* generate_response: the model's text, or the canned one when it fails
generate_response(llm_ok, campaign_type) ==
    IF llm_ok THEN "response" ELSE get_fallback_response(campaign_type)

PipelineResult(extracted_data, strategic_instruction, llm_response, error) ==
    [extracted_data |-> extracted_data,
     strategic_instruction |-> strategic_instruction,
     llm_response |-> llm_response, error |-> error]

\* _create_fallback_result
create_fallback_result ==
    PipelineResult(EmptyDict,
        StrategicInstruction("continue_conversation", <<>>,
                             "professional_friendly", <<>>, <<>>, <<>>, 5, 3),
        "I apologize, but I'm having trouble processing that right now. Could you please repeat?",
        TRUE)

\* conversation_state['required_data'], {} when the key is missing
RequiredDatas ==
    {EmptyDict, [budget_range |-> TRUE], [budget_range |-> FALSE]}

InitBrain ==
    /\ brain = [pc |-> "new", rules |-> Nil, calls |-> 0,
                conversation_history |-> 0, extracted_data_history |-> 0,
                brain_history |-> 0, user_input |-> <<>>,
                required_data |-> EmptyDict, campaign_type |-> WordSales,
                extract_raised |-> FALSE, extracted |-> EmptyDict,
                findings |-> <<>>,
                result |-> Nil]
    /\ eval = IdleEval
    /\ walk = IdleWalk
    /\ pipe = IdlePipe
    /\ reg = IdleReg
    /\ rec = IdleRec
    /\ script = IdleScript
    /\ LaterIdle
    /\ SysIdle

notBrain == <<eval, walk, pipe, reg, rec, script, latervars, sysvars>>

\* setup_campaign
BrainSetup ==
    /\ brain.pc \in {"new", "ready", "returned"}
    /\ \E config \in RuleConfigs :
          brain' = [brain EXCEPT
                       !.pc = "ready",
                       !.rules = Some(extract_nlp_rules_from_campaign(config))]
    /\ UNCHANGED notBrain

\* process_user_input, from the call to the result it returns
BrainProcess ==
    /\ brain.pc \in {"new", "ready", "returned"}
    /\ brain.calls < MaxInputs
    /\ \E user_input \in Utterances, required_data \in RequiredDatas,
          given \in {Nil} \cup {Some(g) : g \in GivenCampaignTypes},
          llm_ok \in BOOLEAN :
          LET extracted_data == extract_from_text(user_input, brain.rules)
              analyses == Analyses(user_input, extracted_data, required_data)
              campaign_type == CampaignTypeOf(given)
              called == [brain EXCEPT
                            !.pc = "returned",
                            !.calls = @ + 1,
                            !.user_input = user_input,
                            !.required_data = required_data,
                            !.campaign_type = campaign_type]
              entered == [called EXCEPT
                             !.extracted_data_history = @ + 1,
                             !.brain_history = @ + 1,
                             !.extract_raised = FALSE,
                             !.extracted = extracted_data]
          IN  IF ExtractRaises(brain.rules)
              THEN brain' = [called EXCEPT
                                !.extract_raised = TRUE,
                                !.extracted = EmptyDict,
                                !.findings = <<>>,
                                !.result = Some(create_fallback_result)]
              ELSE IF AnalyzeRaises(extracted_data)
              THEN brain' = [entered EXCEPT
                                !.findings = <<>>,
                                !.result = Some(create_fallback_result)]
              ELSE IF BuildContextRaises(campaign_type)
              THEN brain' = [entered EXCEPT
                                !.findings = analyses,
                                !.result = Some(create_fallback_result)]
              ELSE brain' = [entered EXCEPT
                                !.findings = analyses,
                                !.conversation_history = @ + 1,
                                !.result = Some(PipelineResult(
                                    extracted_data,
                                    generate_strategic_instruction(analyses),
                                    generate_response(
                                        llm_ok, LowerStr(campaign_type)),
                                    FALSE))]
    /\ UNCHANGED notBrain

NextBrain == BrainSetup \/ BrainProcess

SpecBrain == InitBrain /\ [][NextBrain]_vars

(***************************************************************************)
(* Specification SpecKeywords: one keyword rule applied to one utterance   *)
(* by NLPExtractor._extract_keywords                                       *)
(***************************************************************************)
\* the keywords a rule is made of
RuleWords == {<<"a">>, <<"b">>, <<"c">>, <<"d", "e">>}

\* confidence_threshold of the rule, in hundredths
Thresholds == {0, 50, 70, 100}

KeywordTexts ==
    {<<>>, <<"a">>, <<"A", " ", "b">>, <<"a", "b", " ", "d", "e">>,
     <<"c", " ", "d", " ", "e">>, <<"B", "a", "c", "d", "e">>}

InitKeywords ==
    /\ kw \in [pc : {"rule"}, keywords : SeqsUpTo(RuleWords, MaxKeywords),
                confidence_threshold : Thresholds, text : KeywordTexts,
                result : {Nil}]
    /\ eval = IdleEval
    /\ walk = IdleWalk
    /\ pipe = IdlePipe
    /\ reg = IdleReg
    /\ rec = IdleRec
    /\ script = IdleScript
    /\ brain = IdleBrain
    /\ compose = IdleCompose
    /\ repo = IdleRepo
    /\ api = IdleApi
    /\ instr = IdleInstr
    /\ SysIdle

notKw == <<eval, walk, pipe, reg, rec, script, brain, compose, repo, api, instr, sysvars>>

\* _extract_keywords(text, text.lower(), rule)
KeywordsApply ==
    /\ kw.pc = "rule"
    /\ kw' = [kw EXCEPT
                 !.pc = "applied",
                 !.result = extract_keywords(kw.text,
                     [field_name |-> "field", extraction_type |-> "keyword",
                      keywords |-> kw.keywords, patterns |-> <<>>,
                      confidence_threshold |-> kw.confidence_threshold])]
    /\ UNCHANGED notKw

NextKeywords == KeywordsApply

SpecKeywords == InitKeywords /\ [][NextKeywords]_vars

(***************************************************************************)
(* Specification SpecCompose: CampaignManager.get_campaign_script on one   *)
(* stored campaign, for each stage it is asked for                         *)
(***************************************************************************)
\* the stages scripts are asked for
ComposeStages == {"introduction", "closing"}

\* ids a campaign's template_id can hold: a stored template and a deleted one
StoredTemplate == "t1"
TemplateIds == {StoredTemplate, "gone"}

\* StageInstruction.script_template of the stored template
InstructionScript(stage) == <<"T", stage, "{", "a", "}">>

\* campaign.script_template[stage]['script']
LegacyScript(stage) == <<"L", stage, "{", "b", "}">>

\* f"Default script for {stage.value}"
DefaultScript(stage) == <<"Default script for ", stage>>

\* campaign.script_template[stage]: no entry, an entry without 'script', or
\* an entry with one
StageEntries == {"absent", "no_script", "script"}

\* template_repo.find_by_id
find_template(stage_instructions, template_id) ==
    IF template_id = StoredTemplate
    THEN Some([stage_instructions |-> stage_instructions]) ELSE Nil

\* the mutation: a template that resolves is used for every stage
UsesTemplate_any(template, stage) == template # Nil

\* template and stage.value in template.stage_instructions
UsesTemplate(template, stage) ==
    template # Nil /\ stage \in template[1].stage_instructions

\* get_campaign_script once the campaign is loaded and belongs to the user
get_campaign_script(campaign, stage_instructions, stage, context) ==
    LET template == IF campaign.template_id # Nil
                    THEN find_template(stage_instructions,
                                       campaign.template_id[1])
                    ELSE Nil
        base == IF UsesTemplate(template, stage)
                THEN IF stage \in template[1].stage_instructions
                     THEN Some(InstructionScript(stage)) ELSE Nil
                ELSE IF campaign.script_template[stage] = "script"
                     THEN Some(LegacyScript(stage))
                     ELSE Some(DefaultScript(stage))
    IN  IF base = Nil
        THEN [raised |-> TRUE, path |-> "template", script |-> <<>>]
        ELSE [raised |-> FALSE,
              path |-> IF UsesTemplate(template, stage)
                       THEN "template" ELSE "legacy",
              script |-> Substitute(base[1], context)]

InitCompose ==
    /\ compose \in [pc : {"stored"},
                     template_id : {Nil} \cup {Some(i) : i \in TemplateIds},
                     stage_instructions : SUBSET ComposeStages,
                     script_template : [ComposeStages -> StageEntries],
                     owner : Users, user : {"u1"},
                     stage : {None}, context : {<<>>}, result : {Nil}]
    /\ eval = IdleEval
    /\ walk = IdleWalk
    /\ pipe = IdlePipe
    /\ reg = IdleReg
    /\ rec = IdleRec
    /\ script = IdleScript
    /\ brain = IdleBrain
    /\ kw = IdleKw
    /\ repo = IdleRepo
    /\ api = IdleApi
    /\ instr = IdleInstr
    /\ SysIdle

notCompose == <<eval, walk, pipe, reg, rec, script, brain, kw, repo, api, instr, sysvars>>

\* get_campaign_script(campaign_id, stage, context)
ComposeScript ==
    /\ compose.pc \in {"stored", "composed"}
    /\ \E stage \in ComposeStages, context \in Contexts :
          compose' = [compose EXCEPT
              !.pc = "composed", !.stage = stage, !.context = context,
              !.result =
                  IF compose.owner # compose.user
                  THEN Some([raised |-> TRUE, path |-> "none",
                             script |-> <<>>])
                  ELSE Some(get_campaign_script(compose,
                                compose.stage_instructions, stage, context))]
    /\ UNCHANGED notCompose

NextCompose == ComposeScript

SpecCompose == InitCompose /\ [][NextCompose]_vars

(***************************************************************************)
(* The /calls/process handlers: what goes back to the caller of the API     *)
(***************************************************************************)
\* the handler of src/api/app.py and the one of src/call_agent_api.py
ApiModules == {"api/app.py", "call_agent_api.py"}

\* request.json: no JSON body, {}, {"text": ""}, {"text": " "}, {"text": 5},
\* {"text": "hi"}
Bodies == {"none", "no_text", "empty", "blank", "number", "words"}

\* what fails inside the turn: nothing, a repository write, the generation
TurnFaults == {"none", "storage", "generation"}

\* str(e) of the exceptions the handlers can catch
TypeErrorText == "'NoneType' object is not subscriptable"
NotIterableText == "argument of type 'NoneType' is not iterable"
KeyErrorText == "'text'"
AttributeErrorText == "'int' object has no attribute 'strip'"
StorageErrorText == "[Errno 28] No space left on device"
ExceptionTexts ==
    {TypeErrorText, NotIterableText, KeyErrorText, AttributeErrorText,
     StorageErrorText}

ThinkerApology == "I apologize, but I encountered an error. Could you rephrase your question?"
FailedToProcess == "Failed to process input"
MissingText == "Missing required field: text"

Raised(detail) == [raised |-> TRUE, value |-> detail]
Returned(value) == [raised |-> FALSE, value |-> value]

\* CallAgent.process_user_input as the handler sees it: the tests before the
\* try raise into the handler, everything inside the try is caught.
\* impl is "core" (src/core/call_agent.py) or "legacy"
\* (src/call_agent/call_agent.py)
process_user_input(impl, in_call, body, fault) ==
    IF ~in_call THEN Returned(ReplyNotInCall)
    ELSE IF body = "empty" THEN Returned(ReplyReprompt)
    ELSE IF body = "number" THEN Raised(AttributeErrorText)
    ELSE IF body = "blank" THEN Returned(ReplyReprompt)
    ELSE IF fault = "storage" THEN Returned(ReplyFallback)
    ELSE IF impl = "core" THEN Returned(ReplyFallback)
    ELSE IF fault = "generation" THEN Returned(ThinkerApology)
    ELSE Returned(ReplyGenerated)

\* validate_required_fields(data, ['text'])
validate_required_fields(body) ==
    IF body = "none" THEN Raised(NotIterableText)
    ELSE IF body \in {"no_text", "empty"} THEN Returned(<<FALSE, MissingText>>)
    ELSE Returned(<<TRUE, "">>)

Response(status, kind, text) == [status |-> status, kind |-> kind, text |-> text]

\* process_input of src/call_agent_api.py
legacy_process_input(in_call, body, fault) ==
    IF body = "none" THEN Response(500, "error", TypeErrorText)
    ELSE IF body = "no_text" THEN Response(500, "error", KeyErrorText)
    ELSE LET r == process_user_input("legacy", in_call, body, fault)
         IN  IF r.raised THEN Response(500, "error", r.value)
             ELSE Response(200, "response", r.value)

\* process_input of src/api/app.py
app_process_input(in_call, body, fault) ==
    LET v == validate_required_fields(body)
    IN  IF v.raised THEN Response(500, "error", FailedToProcess)
        ELSE IF ~v.value[1] THEN Response(400, "error", v.value[2])
        ELSE LET r == process_user_input("core", in_call, body, fault)
             IN  IF r.raised THEN Response(500, "error", FailedToProcess)
                 ELSE Response(200, "response", r.value)

InitApi ==
    /\ api \in [pc : {"request"}, module : ApiModules, body : Bodies,
                 in_call : BOOLEAN, fault : TurnFaults, out : {Nil}]
    /\ eval = IdleEval
    /\ walk = IdleWalk
    /\ pipe = IdlePipe
    /\ reg = IdleReg
    /\ rec = IdleRec
    /\ script = IdleScript
    /\ brain = IdleBrain
    /\ kw = IdleKw
    /\ compose = IdleCompose
    /\ repo = IdleRepo
    /\ instr = IdleInstr
    /\ SysIdle

notApi == <<eval, walk, pipe, reg, rec, script, brain, kw, compose, repo, instr, sysvars>>

AppProcessInput ==
    /\ api.pc = "request" /\ api.module = "api/app.py"
    /\ api' = [api EXCEPT !.pc = "responded",
                  !.out = Some(app_process_input(api.in_call, api.body, api.fault))]
    /\ UNCHANGED notApi

LegacyProcessInput ==
    /\ api.pc = "request" /\ api.module = "call_agent_api.py"
    /\ api' = [api EXCEPT !.pc = "responded",
                  !.out = Some(legacy_process_input(api.in_call, api.body, api.fault))]
    /\ UNCHANGED notApi

NextApi == AppProcessInput \/ LegacyProcessInput

SpecApi == InitApi /\ [][NextApi]_vars

(***************************************************************************)
(* One repository and the calls made on it, one after the other            *)
(***************************************************************************)
Phones == [u1 |-> "+1", u2 |-> "+2"]

\* Contact(user_id=..., phone_number=...): id is the default uuid4, which the
\* n-th construction makes the fresh value n; status is ContactStatus.NEW
Contact(n, user_id) ==
    [id |-> n, user_id |-> user_id, phone_number |-> Phones[user_id],
     status |-> "ContactStatus.NEW"]

\* Contact.to_dict: the enum becomes its value
Contact_to_dict(c) ==
    [id |-> c.id, user_id |-> c.user_id, phone_number |-> c.phone_number,
     status |-> IF c.status = "ContactStatus.NEW" THEN "new" ELSE "contacted"]

\* ContactRepository.from_dict: id and user_id with data.get, the status
\* string back to the enum
Contact_from_dict(data) ==
    [id |-> IF Has(data, "id") THEN data.id ELSE None,
     user_id |-> IF Has(data, "user_id") THEN data.user_id ELSE None,
     phone_number |-> data.phone_number,
     status |-> IF data.status = "new" THEN "ContactStatus.NEW"
                ELSE "ContactStatus.CONTACTED"]

\* the items of data whose field equals value, in file order
Matching(data, field, value) ==
    SelectSeq(data, LAMBDA item : Has(item, field) /\ item[field] = value)

\* find_one_by_field read as find_by_field: only the first match comes back
find_by_field_first(data, field, value) ==
    LET m == Matching(data, field, value)
    IN  IF m = <<>> THEN <<>> ELSE <<Contact_from_dict(m[1])>>

\* BaseRepository.find_by_field on loaded data
find_by_field(data, field, value) ==
    LET m == Matching(data, field, value)
    IN  [i \in 1..Len(m) |-> Contact_from_dict(m[i])]

\* BaseRepository.delete on loaded data: the list to save, or Nil when no
\* item has the id
delete(data, entity_id) ==
    IF FirstWithId(data, entity_id) = 0 THEN Nil
    ELSE Some([i \in 1..(Len(data) - 1) |->
                  IF i < FirstWithId(data, entity_id) THEN data[i]
                  ELSE data[i + 1]])

InitRepo ==
    /\ repo = [pc |-> "open", file |-> <<>>, created |-> <<>>,
               deleted |-> {}, op |-> "none", arg |-> None, ret |-> Nil]
    /\ eval = IdleEval
    /\ walk = IdleWalk
    /\ pipe = IdlePipe
    /\ reg = IdleReg
    /\ rec = IdleRec
    /\ script = IdleScript
    /\ brain = IdleBrain
    /\ kw = IdleKw
    /\ compose = IdleCompose
    /\ api = IdleApi
    /\ instr = IdleInstr
    /\ SysIdle

notRepo == <<eval, walk, pipe, reg, rec, script, brain, kw, compose, api, instr, sysvars>>

\* contact = contact_repo.create(Contact(user_id=u, ...))
RepoCreate ==
    /\ repo.pc = "open"
    /\ Len(repo.created) < MaxCreates
    /\ \E u \in Users :
          LET c == Contact(Len(repo.created) + 1, u)
          IN  repo' = [repo EXCEPT
                  !.file = create(repo.file, Contact_to_dict(c)),
                  !.created = Append(repo.created, c),
                  !.op = "create", !.arg = c.id, !.ret = Some(c)]
    /\ UNCHANGED notRepo

\* contact_repo.delete(entity_id)
RepoDelete ==
    /\ repo.pc = "open"
    /\ \E entity_id \in 1..MaxCreates :
          LET saved == delete(repo.file, entity_id)
          IN  repo' = [repo EXCEPT
                  !.file = IF saved = Nil THEN repo.file ELSE saved[1],
                  !.deleted = IF saved = Nil THEN repo.deleted
                              ELSE repo.deleted \cup {entity_id},
                  !.op = "delete", !.arg = entity_id,
                  !.ret = Some(saved # Nil)]
    /\ UNCHANGED notRepo

\* contact_repo.find_by_id(entity_id)
RepoFindById ==
    /\ repo.pc = "open"
    /\ \E entity_id \in 1..MaxCreates :
          repo' = [repo EXCEPT
              !.op = "find_by_id", !.arg = entity_id,
              !.ret = IF FirstWithId(repo.file, entity_id) = 0 THEN Nil
                      ELSE Some(Contact_from_dict(
                               repo.file[FirstWithId(repo.file, entity_id)]))]
    /\ UNCHANGED notRepo

\* contact_repo.find_by_field('user_id', u)
RepoFindByField ==
    /\ repo.pc = "open"
    /\ \E u \in Users :
          repo' = [repo EXCEPT
              !.op = "find_by_field", !.arg = u,
              !.ret = Some(find_by_field(repo.file, "user_id", u))]
    /\ UNCHANGED notRepo

NextRepo == RepoCreate \/ RepoDelete \/ RepoFindById \/ RepoFindByField

SpecRepo == InitRepo /\ [][NextRepo]_vars

(***************************************************************************)
(* Specification SpecInstruction: one list of findings given to            *)
(* MidConversationBrain._generate_strategic_instruction                    *)
(***************************************************************************)
\* the finding each of the four analyses returns when it returns one
FindingStage == ConversationAnalysis("stage_transition", "transition_to_next_stage", 7)
FindingObjection == ConversationAnalysis("objection_handling", "address_objections", 9)
FindingOpportunity == ConversationAnalysis("opportunity_detection", "capitalize_on_opportunities", 8)
FindingRisk == ConversationAnalysis("risk_assessment", "mitigate_risks", 6)

Findings == {FindingStage, FindingObjection, FindingOpportunity, FindingRisk}

\* the lists of distinct findings, in any order
FindingLists ==
    {q \in SeqsUpTo(Findings, Cardinality(Findings)) :
        \A i, j \in 1..Len(q) : i # j => q[i] # q[j]}

InitInstruction ==
    /\ instr \in [pc : {"analysed"}, analyses : FindingLists, instruction : {Nil}]
    /\ eval = IdleEval
    /\ walk = IdleWalk
    /\ pipe = IdlePipe
    /\ reg = IdleReg
    /\ rec = IdleRec
    /\ script = IdleScript
    /\ brain = IdleBrain
    /\ kw = IdleKw
    /\ compose = IdleCompose
    /\ repo = IdleRepo
    /\ api = IdleApi
    /\ SysIdle

notInstr == <<eval, walk, pipe, reg, rec, script, brain, kw, compose, repo, api, sysvars>>

\* return self._generate_strategic_instruction(analyses, ...)
InstructionGenerate ==
    /\ instr.pc = "analysed"
    /\ instr' = [instr EXCEPT
           !.pc = "generated",
           !.instruction = Some(generate_strategic_instruction(instr.analyses))]
    /\ UNCHANGED notInstr

NextInstruction == InstructionGenerate

SpecInstruction == InitInstruction /\ [][NextInstruction]_vars

(***************************************************************************)
(* Claims                                                                  *)
(***************************************************************************)
AndConditionsPass ==
    /\ Has(eval.rules, "min_turns") => ~(eval.turns < eval.rules.min_turns)
    /\ Has(eval.rules, "keywords") => AnyIn(eval.rules.keywords, eval.input)
    /\ (Has(eval.rules, "sentiment_threshold") /\ eval.sentiment # <<>>)
           => ~(eval.sentiment[1] < eval.rules.sentiment_threshold)

SignalMatches ==
    /\ Has(eval.rules, "transition_signals")
    /\ AnyIn(eval.rules.transition_signals, eval.input)

\* C1: the evaluator returns true iff every configured AND-condition passes
\* or a configured transition signal is a case-insensitive substring of the
\* utterance; a matching signal wins even when an AND-condition fails.
C1_SignalOverridesAnd ==
    eval.pc = "legacy" =>
        (eval.result <=> (AndConditionsPass \/ SignalMatches))

NoDuplicateStage(stages) ==
    \A i, j \in 1..Len(stages) : stages[i] = stages[j] => i = j

InOrderWalk ==
    /\ walk.pc \in {"walking", "ended"} =>
           /\ Len(walk.trail) <= Len(walk.stages)
           /\ walk.trail = SubSeq(walk.stages, 1, Len(walk.trail))
    /\ walk.pc = "ended" => Len(walk.trail) = Len(walk.stages)
    /\ (walk.pc = "probed"
        /\ (IndexOf(walk.stages, walk.probe) = 0
            \/ walk.probe = walk.stages[Len(walk.stages)]))
           => walk.result = None

\* C2 as stated: from the first stage, repeated get_next_stage visits
\* campaign.stages at indices 0, 1, 2, ... without skipping or repeating, and
\* returns none for the last stage and for a stage not in the list.
C2_WalkVisitsEveryIndexOnce == InOrderWalk

\* C2 amended: the same, for every campaign whose stages list names no stage
\* twice.
C2_WalkVisitsEveryIndexOnceDistinct ==
    NoDuplicateStage(walk.stages) => InOrderWalk

C2_Witness ==
    /\ walk.pc = "ended"
    /\ Len(walk.stages) = MaxStages
    /\ NoDuplicateStage(walk.stages)

\* C3: whatever step or collaborator fails during a turn, the turn returns a
\* non-empty reply and no exception escapes the entry point.
C3_AlwaysNonEmptyReply ==
    /\ pipe.pc # "raised"
    /\ pipe.pc = "returned" => pipe.response # <<>>

Range(q) == {q[i] : i \in 1..Len(q)}

\* C11: from its creation by start_call onward, a Conversation's stage is one
\* of the stages listed in its Campaign's stages.
C11_StageListedInCampaign ==
    (walk.pc = "in_call" /\ walk.stages # <<>>) => walk.cur \in Range(walk.stages)

\* a thread is inside a turn of CallAgent.process_user_input
InTurn(t) ==
    /\ thr[t].op = "process"
    /\ thr[t].pc \notin {"idle", "enter", "respond"}

\* C4: no two turns for the same Conversation ever execute concurrently.
C4_TurnsOfOneConversationSequential ==
    \A t1, t2 \in Threads :
        (t1 # t2 /\ InTurn(t1) /\ InTurn(t2)) => thr[t1].call # thr[t2].call

ActiveCalls(u) ==
    {i \in 1..Len(calls) : calls[i].user_id = u /\ calls[i].status = "in_progress"}

\* C5: at every moment each user has at most one active Call.
C5_AtMostOneActiveCall ==
    \A u \in Users : Cardinality(ActiveCalls(u)) <= 1

CallIds == DOMAIN calls

\* the step is taken by thread t
StepOf(t) == thr'[t] # thr[t]

\* C6: a step of a turn processed for one Conversation leaves the persisted
\* record of every Conversation of another user as it was.
C6_TurnLeavesOtherRecordsAlone ==
    [][\A t \in Threads :
          (InTurn(t) /\ StepOf(t)) =>
              \A c \in CallIds :
                  calls[c].user_id # thr[t].user => Persisted(c)' = Persisted(c)]_vars

NameOf(u) == Title(SubSeq(TextName(u), Len(TextName(u)) - 2, Len(TextName(u))))

\* C7: the collected_data a turn for one user reads from the repository
\* holds only values written by turns of that user's Conversation.
C7_CollectedDataOfOwnConversationOnly ==
    \A t \in Threads :
        (InTurn(t) /\ thr[t].obj # Nil) =>
            \A k \in DOMAIN thr[t].obj[1].collected_data :
                thr[t].obj[1].collected_data[k] = NameOf(thr[t].user)

IsPrefix(s, q) == Len(s) <= Len(q) /\ s = SubSeq(q, 1, Len(s))

\* C8: the persisted transcript of a Conversation only grows: what it holds
\* before a step is a prefix of what it holds after the step.
C8_TranscriptAppendOnly ==
    [][\A c \in CallIds :
          (Persisted(c) # Nil /\ Persisted(c)' # Nil) =>
              IsPrefix(Persisted(c)[1].transcript, Persisted(c)'[1].transcript)]_vars

\* C9: a turn in which a persistence call failed answers with the generic
\* failure reply and leaves the persisted Conversation as it was when the
\* turn began.
C9_FailedTurnLeavesNoWrite ==
    \A t \in Threads :
        (thr[t].pc = "respond" /\ thr[t].op = "process" /\ thr[t].failed) =>
            /\ thr[t].ret = ReplyFallback
            /\ Persisted(thr[t].call) = thr[t].before

\* C10: the index of a Conversation's persisted stage within campaign.stages
\* never decreases.
C10_PersistedStageNeverDecreases ==
    [][\A c \in CallIds :
          (Persisted(c) # Nil /\ Persisted(c)' # Nil) =>
              IndexOf(StoredStages, Persisted(c)[1].stage)
                  <= IndexOf(StoredStages, Persisted(c)'[1].stage)]_vars

\* C12: a field once written into a Conversation's persisted collected_data
\* stays present in it.
C12_CollectedFieldStays ==
    [][\A c \in CallIds :
          (Persisted(c) # Nil /\ Persisted(c)' # Nil) =>
              DOMAIN Persisted(c)[1].collected_data
                  \subseteq DOMAIN Persisted(c)'[1].collected_data]_vars

\* C13: the agent-map lock is held only during lookup and creation; no thread
\* holds it once its turn has started or while the turn waits for the
\* generation collaborator.
C13_LockNotHeldDuringTurn ==
    reg.pc = "serving" =>
        \A t \in Threads :
            reg.lock = Some(t) => reg.w[t].pc \in {"lookup", "construct", "return"}

C13_Witness ==
    /\ reg.pc = "serving"
    /\ \E t1, t2 \in Threads :
           /\ reg.w[t1].pc = "generating"
           /\ reg.lock = Some(t2)

\* C14: at most one agent is ever created per user id, and every
\* get_call_agent for that user id returns that one instance.
C14_OneAgentPerUser ==
    reg.pc = "serving" =>
        \A u \in Users :
            /\ reg.made[u] <= 1
            /\ Cardinality(reg.returned[u]) <= 1
            /\ \A t \in Threads :
                   (reg.w[t].user = u /\ reg.w[t].got # Nil) =>
                       reg.w[t].got[1] \in reg.returned[u]

C14_Witness ==
    /\ reg.pc = "serving"
    /\ \E t1, t2 \in Threads :
           /\ t1 # t2
           /\ reg.w[t1].user = reg.w[t2].user
           /\ reg.w[t1].got # Nil
           /\ reg.w[t1].got = reg.w[t2].got

\* C15: a thread that wants the agent of one user never waits for a lookup or
\* creation that another thread has in progress for a different user.
C15_NoWaitAcrossUsers ==
    reg.pc = "serving" =>
        \A t1, t2 \in Threads :
            (reg.w[t1].pc = "acquire" /\ reg.lock = Some(t2))
                => reg.w[t1].user = reg.w[t2].user

\* C16: when cleanup runs on a recording agent, the recording thread has been
\* stopped and joined before the recognizer or the synthesizer is released,
\* and it is not running when cleanup is over.
C16_RecorderJoinedBeforeRelease ==
    rec.pc # "idle" =>
        /\ (rec.recognizer = "released" \/ rec.tts = "released")
               => rec.thread # "running"
        /\ rec.pc \in {"returned", "raised"} => rec.thread # "running"

\* end_call has finished for the call: its status is set and the agent's
\* call state is cleared
Ended(c) ==
    /\ c \in CallIds
    /\ calls[c].status = "completed"
    /\ \A u \in Users : agent[u] # Nil => agent[u][1].current_call # Some(c)

\* C17: once a Call has ended, no step of a turn of its Conversation, a turn
\* that was in progress when the call ended included, changes the persisted
\* transcript, collected_data or stage.
C17_EndedConversationClosed ==
    [][\A t \in Threads :
          (InTurn(t) /\ StepOf(t) /\ Ended(thr[t].call)) =>
              Persisted(thr[t].call)' = Persisted(thr[t].call)]_vars

\* C18: substituting the placeholders of an already substituted script with
\* the same context changes nothing.
C18_SubstitutionIdempotent ==
    script.pc = "twice" => script.twice = script.once

\* the finding the instruction is made from: the first one after the sort
TopFinding == SortByPriority(brain.findings)[1]

\* C19: an utterance with an objection keyword, processed by a pipeline set
\* up with the default extraction rules for a campaign type of the enum,
\* comes back with an instruction made from an objection finding of
\* priority 9, whose primary_goal is address_objections.
C19_ObjectionDrivesInstruction ==
    (/\ brain.pc = "returned"
     /\ brain.rules = Some(get_default_extraction_rules)
     /\ ~BuildContextRaises(brain.campaign_type)
     /\ Found(objection_keywords, LowerStr(brain.user_input), 1) # <<>>) =>
        /\ brain.findings # <<>>
        /\ TopFinding.analysis_type = "objection_handling"
        /\ TopFinding.priority = 9
        /\ brain.result[1].strategic_instruction.primary_goal
               = "address_objections"

\* no keyword, pattern or lexicon word of the rule occurs in the text
RuleSilent(rule, text) ==
    /\ Found(rule.keywords, LowerStr(text), 1) = <<>>
    /\ \A i \in 1..Len(rule.patterns) : ~MatchPattern(rule.patterns[i], text)
    /\ rule.extraction_type = "intent" =>
           \A b \in 1..Len(intent_keywords) :
               Found(intent_keywords[b].keywords, LowerStr(text), 1) = <<>>
    /\ rule.extraction_type = "sentiment" =>
           Found(positive_words \o negative_words, LowerStr(text), 1) = <<>>

\* the utterance matches nothing: no configured extraction rule, and none of
\* the fixed keywords of the objection and risk analyses
NothingMatches ==
    /\ brain.rules # Nil
    /\ \A i \in 1..Len(brain.rules[1]) :
           RuleSilent(brain.rules[1][i], brain.user_input)
    /\ Found(objection_keywords \o <<WordBusy, WordTime>>,
             LowerStr(brain.user_input), 1) = <<>>

\* C20: an utterance that matches no keyword or pattern of any configured
\* rule comes back with no extracted data and with the neutral instruction:
\* primary_goal continue_conversation, empty lists, urgency 5, risk 3.
C20_NoMatchGivesNeutralInstruction ==
    (/\ brain.pc = "returned"
     /\ ~BuildContextRaises(brain.campaign_type)
     /\ NothingMatches) =>
        LET result == brain.result[1]
            instruction == result.strategic_instruction
        IN  /\ result.extracted_data = EmptyDict
            /\ instruction.primary_goal = "continue_conversation"
            /\ instruction.secondary_goals = <<>>
            /\ instruction.focus_areas = <<>>
            /\ instruction.avoid_topics = <<>>
            /\ instruction.next_questions = <<>>
            /\ instruction.urgency_level = 5
            /\ instruction.risk_level = 3

\* the strings of the campaign-type fallback table
FallbackTable == {get_fallback_response(c) : c \in CampaignTypeValues}

\* C21: when the generation collaborator fails in a turn of a call that is
\* still open, the reply of the turn is the canned fallback string of a
\* campaign type, and no string of another table.
C21_GenerationFailureGivesCampaignFallback ==
    [][\A t \in Threads :
          (/\ thr[t].pc = "generate"
           /\ Me(t).current_campaign # Nil
           /\ Me(t).current_conversation # Nil
           /\ thr'[t].pc = "respond") =>
              thr'[t].ret \in FallbackTable]_vars

\* C22: in one batch a rule that raises is skipped: extract_from_text does
\* not raise, and every rule of the batch that does not raise and has a
\* result has it among the extracted data.
C22_RaisingRuleIsSkipped ==
    (brain.pc = "returned" /\ brain.rules # Nil) =>
        /\ ~brain.extract_raised
        /\ \A i \in 1..Len(brain.rules[1]) :
               LET rule == brain.rules[1][i]
               IN  (/\ ~RuleRaises(rule)
                    /\ apply_extraction_rule(brain.user_input, rule) # Nil) =>
                       Has(brain.extracted, rule.field_name)

\* positions of the rule's keyword list whose keyword occurs in the text
MatchedEntries ==
    {i \in 1..Len(kw.keywords) :
         Contains(LowerStr(kw.text), LowerStr(kw.keywords[i]))}

\* the different keywords of the rule that occur in the text
MatchedDistinct == {LowerStr(kw.keywords[i]) : i \in MatchedEntries}

\* C23 as stated: the confidence is (distinct rule keywords found) /
\* (keywords in the rule) and the rule emits exactly when that ratio is at
\* least the threshold.
C23_ConfidenceOfDistinctKeywords ==
    (kw.pc = "applied" /\ kw.keywords # <<>>) =>
        /\ kw.result # Nil <=>
               Cardinality(MatchedDistinct) * 100
                   >= kw.confidence_threshold * Len(kw.keywords)
        /\ kw.result # Nil =>
               kw.result[1].confidence.num * Len(kw.keywords)
                   = Cardinality(MatchedDistinct) * kw.result[1].confidence.den

\* C23, amended: the confidence is (entries of the rule's keyword list that
\* occur in the utterance) / (entries of the list), and the rule emits
\* exactly when at least one entry occurs and that ratio is at least the
\* threshold; with threshold 0.5 and 2 of 4 entries matched it emits with
\* confidence 0.5.
C23_ConfidenceOfMatchedEntries ==
    kw.pc = "applied" =>
        LET n == Cardinality(MatchedEntries)
            d == Len(kw.keywords)
        IN  /\ kw.result # Nil <=>
                   (n > 0 /\ n * 100 >= kw.confidence_threshold * d)
            /\ kw.result # Nil =>
                   kw.result[1].confidence = Fraction(n, d)
            /\ (kw.confidence_threshold = 50 /\ n = 2 /\ d = 4) =>
                   /\ kw.result # Nil
                   /\ 2 * kw.result[1].confidence.num
                          = kw.result[1].confidence.den

\* a rule of four different keywords and threshold 0.5 has emitted on two
C23_Witness ==
    /\ kw.pc = "applied"
    /\ kw.confidence_threshold = 50
    /\ Len(kw.keywords) = 4
    /\ Cardinality({kw.keywords[i] : i \in 1..4}) = 4
    /\ kw.result # Nil
    /\ kw.result[1].confidence = Fraction(2, 4)

\* the campaign's template_id resolves to a template that has an instruction
\* for the stage asked for
TemplateDefinesStage ==
    /\ compose.template_id = Some(StoredTemplate)
    /\ compose.stage \in compose.stage_instructions

BlankTurn(t) ==
    /\ thr[t].op = "process"
    /\ thr[t].pc = "enter"
    /\ IsBlank(thr[t].text)

FixedFailureReplies ==
    {ReplyNotInCall, ReplyReprompt, ReplyFallback, ThinkerApology,
     FailedToProcess, MissingText}

\* the request did not produce a generated reply
FailedRequest ==
    /\ api.pc = "responded"
    /\ api.out[1].status # 200 \/ api.out[1].text # ReplyGenerated

\* C26: whatever a /calls/process request that failed sends back is one of the
\* strings fixed in the code, and never the text of the exception.
C26_FailureReplyIsFixedString ==
    FailedRequest =>
        /\ api.out[1].text \in FixedFailureReplies
        /\ api.out[1].text \notin ExceptionTexts

\* the entities create has returned and no delete has removed
Kept == {i \in 1..Len(repo.created) : repo.created[i].id \notin repo.deleted}

TranscriptOf(call_id) ==
    IF Persisted(call_id) = Nil THEN <<>> ELSE Persisted(call_id)[1].transcript

\* the last two entries of a transcript are the utterance and the reply
EndsWithTurn(transcript, user_text, reply) ==
    /\ Len(transcript) >= 2
    /\ transcript[Len(transcript) - 1] = [speaker |-> "user", text |-> user_text]
    /\ transcript[Len(transcript)] = [speaker |-> "agent", text |-> reply]

StageOf(call_id) ==
    IF Persisted(call_id) = Nil THEN None ELSE Persisted(call_id)[1].stage

\* the step with which a turn returns
TurnEnds(t) == InTurn(t) /\ thr'[t].pc = "respond"

\* C29: when a turn ends, the persisted stage of its Conversation is the stage
\* after the pre-turn stage in campaign.stages if the evaluator returned true
\* in the turn and the stage was not the last one, and the pre-turn stage in
\* every other turn.
C29_StageAfterTurn ==
    [][\A t \in Threads :
          (TurnEnds(t) /\ thr[t].before # Nil) =>
              StageOf(thr[t].call)' =
                  IF thr[t].next_stage # ""
                  THEN get_next_stage(StoredStages, thr[t].before[1].stage)
                  ELSE thr[t].before[1].stage]_vars

\* the stage_transitions entry add_stage_transition appends
StageTransition(from_stage, to_stage) ==
    [from_stage |-> from_stage, to_stage |-> to_stage]

\* C30: every step that changes the persisted stage of a Conversation appends
\* exactly one stage_transitions entry, from the stage before the step to the
\* stage after it.
C30_StageChangeIsRecorded ==
    [][\A c \in CallIds :
          (/\ Persisted(c) # Nil /\ Persisted(c)' # Nil
           /\ Persisted(c)'[1].stage # Persisted(c)[1].stage) =>
              Persisted(c)'[1].stage_transitions =
                  Append(Persisted(c)[1].stage_transitions,
                         StageTransition(Persisted(c)[1].stage,
                                         Persisted(c)'[1].stage))]_vars

\* the Strategic Decision Engine raised in the call that has just returned
\* (the extraction before it did not)
EngineRaised ==
    /\ brain.pc = "returned"
    /\ ~brain.extract_raised
    /\ AnalyzeRaises(brain.extracted)

\* C31: when the Strategic Decision Engine raises, the result of the turn
\* carries the neutral default instruction, keeps the facts extracted in the
\* turn, and its reply comes from the generation collaborator, not from the
\* pipeline's failure result.
C31_EngineFailureDegradesOneStep ==
    EngineRaised =>
        /\ brain.result[1].strategic_instruction
               = create_fallback_result.strategic_instruction
        /\ brain.result[1].extracted_data = brain.extracted
        /\ ~brain.result[1].error
        /\ brain.result[1].llm_response # create_fallback_result.llm_response

\* a finding of the given type is in the list the generator was given
HasFinding(t) ==
    \E i \in 1..Len(instr.analyses) : instr.analyses[i].analysis_type = t

\* the tone the precedence objection, risk, opportunity gives
ToneByPrecedence ==
    IF HasFinding("objection_handling") THEN "empathetic_and_understanding"
    ELSE IF HasFinding("risk_assessment") THEN "calm_and_reassuring"
    ELSE IF HasFinding("opportunity_detection") THEN "enthusiastic_and_engaging"
    ELSE "professional_and_friendly"

\* C32: the tone of the generated instruction follows the precedence
\* objection, then risk, then opportunity, else the professional one: with a
\* risk and an opportunity finding and no objection finding it is the calm one.
C32_ToneByFixedPrecedence ==
    instr.pc = "generated" =>
        instr.instruction[1].tone_adjustment = ToneByPrecedence

\* the finding of the list with the highest priority
TopOf(analyses) ==
    CHOOSE a \in Range(analyses) : \A b \in Range(analyses) : b.priority <= a.priority

GoalOfType ==
    [objection_handling |-> "address_objections",
     opportunity_detection |-> "capitalize_on_opportunities",
     stage_transition |-> "transition_stage",
     risk_assessment |-> "mitigate_risks"]

\* C33: primary_goal is the goal of the finding with the highest priority,
\* and it is continue_conversation exactly when the list of findings is empty.
C33_GoalOfTopFinding ==
    instr.pc = "generated" =>
        /\ instr.analyses # <<>> =>
              instr.instruction[1].primary_goal
                  = GoalOfType[TopOf(instr.analyses).analysis_type]
        /\ instr.instruction[1].primary_goal = "continue_conversation"
              <=> instr.analyses = <<>>

\* an instruction was generated from a list that holds the objection finding
\* behind a finding of lower priority
C33_Witness ==
    /\ instr.pc = "generated"
    /\ Len(instr.analyses) > 1
    /\ instr.analyses[1] # FindingObjection
    /\ HasFinding("objection_handling")
    /\ instr.instruction[1].primary_goal = "address_objections"

\* the items of the context whose placeholder starts the text
StartingHere(text, context) ==
    {i \in 1..Len(context) : StartsWith(text, Placeholder(context[i][1]))}

\* one pass over the text: a placeholder with a key of the context becomes
\* the key's value, which is not looked at again; everything else is copied
RECURSIVE SinglePass(_, _)
SinglePass(text, context) ==
    IF text = <<>> THEN <<>>
    ELSE IF StartingHere(text, context) # {}
    THEN LET i == CHOOSE i \in StartingHere(text, context) : TRUE
         IN  context[i][2]
                 \o SinglePass(SubSeq(text, Len(Placeholder(context[i][1])) + 1,
                                      Len(text)), context)
    ELSE <<Head(text)>> \o SinglePass(Tail(text), context)

\* C34: the substituted script is the one a single pass over the stored text
\* gives, whatever the order of the context's items: a value that was
\* inserted is not rewritten for another key, and a placeholder without a
\* key in the context stays as it is.
C34_SubstitutionSinglePass ==
    script.pc = "once" =>
        script.once = SinglePass(script.text,
                          merge_context(script.context, script.documents).full_context)

\* the names a conversation of the campaign may collect: the campaign's
\* data_collection_fields (the stored campaigns have no template, so no
\* template name is added)
AllowedKeys(campaign_id) ==
    {StoredFields(campaign_id)[i] : i \in 1..Len(StoredFields(campaign_id))}

\* C35: every key of a persisted Conversation's collected_data is one of the
\* data_collection_fields of the Conversation's own Campaign (or a name the
\* campaign's template declares); no turn writes a key outside that set.
C35_CollectedKeysAreDeclared ==
    \A i \in 1..Len(convFile) :
        DOMAIN convFile[i].collected_data \subseteq
            AllowedKeys(convFile[i].campaign_id)

\* the transcript length the evaluation of thread t's turn compares with
\* min_turns: that of the stored conversation found by the agent's id
ComparedLength(t) ==
    LET stored == find_by_id(convFile, Me(t).current_conversation[1].id)
    IN  IF stored = Nil THEN 0 ELSE Len(stored[1].transcript)

\* C36: the transcript length the Stage Transition Evaluator compares with
\* min_turns grows by at least one with every processed utterance: when a turn
\* reaches the evaluation, the length is at least one more than the length of
\* the conversation's persisted transcript when the turn began (so that the
\* min_turns check is eventually passed).
C36_ComparedLengthGrows ==
    \A t \in Threads :
        (/\ thr[t].op = "process" /\ thr[t].pc = "evaluate"
         /\ thr[t].before # Nil
         /\ Me(t).current_conversation # Nil)
            => ComparedLength(t) >= Len(thr[t].before[1].transcript) + 1

\* start_call of thread t has returned false to the handler
StartReturnedFalse(t) ==
    thr[t].pc = "respond" /\ thr[t].op = "start" /\ thr[t].ret = "False"

\* C37: whenever start_call returns false (contact or campaign missing,
\* ownership mismatch, or the originate failing), the call it was building is
\* not the agent's current call, its conversation is not the agent's current
\* conversation, and no Conversation record of it has been persisted.
C37_FailedStartLeavesNothing ==
    \A t \in Threads :
        StartReturnedFalse(t) =>
            /\ Persisted(thr[t].call) = Nil
            /\ agent[thr[t].user] # Nil =>
                   /\ Me(t).current_call # Some(thr[t].call)
                   /\ \/ Me(t).current_conversation = Nil
                      \/ Me(t).current_conversation[1].call_id # thr[t].call

\* the start request of thread t names a contact or a campaign of another
\* user than the one its agent was obtained for
ForeignStart(t) ==
    /\ thr[t].op = "start" /\ thr[t].pc = "enter"
    /\ \/ /\ thr[t].contact \in DOMAIN ContactOwner
          /\ ContactOwner[thr[t].contact] # thr[t].user
       \/ /\ thr[t].campaign \in DOMAIN CampaignOwner
          /\ CampaignOwner[thr[t].campaign] # thr[t].user

\* C38: start_call given a contact or a campaign owned by another user than
\* the one the agent was obtained for returns false and builds no Call and no
\* Conversation, however the registry created the agent.
C38_ForeignStartRefused ==
    [][\A t \in Threads :
           (ForeignStart(t) /\ StepOf(t)) =>
               /\ thr'[t].pc = "respond" /\ thr'[t].ret = "False"
               /\ thr'[t].obj = Nil
               /\ calls' = calls]_vars

\* C39: composing a script does not modify the context map supplied by the
\* caller: after the composer returns, the caller's map has exactly the keys
\* and values it had before the call.
C39_CallerContextUnchanged ==
    script.pc \in {"once", "twice"} => script.caller = script.context

\* stop_recording returns to its caller (the call loop or cleanup)
StopReturns ==
    /\ rec.pc \in {"stop_join", "join"}
    /\ rec'.pc \in {"live", "returned"}

====
